---- MODULE Spec2Model ----
(***************************************************************************)
(* Verification model of simple-features-js.                               *)
(*                                                                         *)
(* Geometries are objects on a heap: heap[i] is the i-th object created,   *)
(* and a container's kids are the heap indices (the references) it holds,  *)
(* so that aliasing, copy() and mutation through an alias are modelled as  *)
(* the classes implement them.  In copy(), equals() and the serialiser a   *)
(* Point's y is stored, copied, compared and written by the same           *)
(* statements as its x and is not repeated there; the planar algorithms of *)
(* GeometryUtils read both.                                                *)
(***************************************************************************)
EXTENDS Integers, Sequences, FiniteSets, TLC

VARIABLES heap, last

vars == <<heap, last>>

-----------------------------------------------------------------------------
(* Bounds *)

\* objects created and children held in Spec
MaxObj == 3
MaxKids == 1

-----------------------------------------------------------------------------
(* Values *)

\* the JavaScript value undefined of an optional coordinate
Undef == -1

\* the JavaScript values Infinity and null of a coordinate
Inf == -2
Null == -3

\* a property JSON.stringify left out of the document
Omitted == -4

\* finite coordinate values a setter is called with
Coord == {0, 1}

\* values the z and m setters are called with
Optional == {Undef, 1}

\* GeometryType enum
Geometry == 0
Point == 1
LineString == 2
Polygon == 3
MultiPoint == 4
MultiLineString == 5
MultiPolygon == 6
GeometryCollection == 7
CircularString == 8
CompoundCurve == 9
CurvePolygon == 10
MultiCurve == 11
MultiSurface == 12
Curve == 13
Surface == 14
PolyhedralSurface == 15
Tin == 16
Triangle == 17

\* the class each class extends ("" above Geometry)
SuperClass(c) ==
  CASE c = "Point" -> "Geometry"
    [] c = "Curve" -> "Geometry"
    [] c = "Surface" -> "Geometry"
    [] c = "GeometryCollection" -> "Geometry"
    [] c = "LineString" -> "Curve"
    [] c = "CompoundCurve" -> "Curve"
    [] c = "LinearRing" -> "LineString"
    [] c = "CircularString" -> "LineString"
    [] c = "CurvePolygon" -> "Surface"
    [] c = "PolyhedralSurface" -> "Surface"
    [] c = "Polygon" -> "CurvePolygon"
    [] c = "Triangle" -> "Polygon"
    [] c = "TIN" -> "PolyhedralSurface"
    [] c = "MultiPoint" -> "GeometryCollection"
    [] c = "MultiCurve" -> "GeometryCollection"
    [] c = "MultiSurface" -> "GeometryCollection"
    [] c = "ExtendedGeometryCollection" -> "GeometryCollection"
    [] c = "MultiLineString" -> "MultiCurve"
    [] c = "MultiPolygon" -> "MultiSurface"
    [] OTHER -> ""

\* JavaScript's  obj instanceof type  on the class names
RECURSIVE InstanceOf(_, _)
InstanceOf(c, type) ==
  IF c = "" THEN FALSE
  ELSE IF c = type THEN TRUE
  ELSE InstanceOf(SuperClass(c), type)

\* the tag the static create() of a class passes to the constructor
CreateType(c) ==
  CASE c = "Point" -> Point
    [] c = "LineString" -> LineString
    [] c = "LinearRing" -> LineString
    [] c = "CircularString" -> CircularString
    [] c = "CompoundCurve" -> CompoundCurve
    [] c = "CurvePolygon" -> CurvePolygon
    [] c = "Polygon" -> Polygon
    [] c = "Triangle" -> Triangle
    [] c = "PolyhedralSurface" -> PolyhedralSurface
    [] c = "TIN" -> Tin
    [] c = "MultiPoint" -> MultiPoint
    [] c = "MultiLineString" -> MultiLineString
    [] c = "MultiPolygon" -> MultiPolygon
    [] c = "GeometryCollection" -> GeometryCollection
    [] c = "ExtendedGeometryCollection" -> GeometryCollection

\* the class of the elements an add method of a container class accepts
ElementClass(c) ==
  CASE InstanceOf(c, "LineString") -> "Point"
    [] c = "CompoundCurve" -> "LineString"
    [] InstanceOf(c, "Polygon") -> "LineString"
    [] c = "CurvePolygon" -> "Curve"
    [] InstanceOf(c, "PolyhedralSurface") -> "Polygon"
    [] c = "MultiPoint" -> "Point"
    [] c = "MultiLineString" -> "LineString"
    [] c = "MultiPolygon" -> "Polygon"
    [] InstanceOf(c, "GeometryCollection") -> "Geometry"
    [] OTHER -> ""

-----------------------------------------------------------------------------
(* Objects *)

\* new Geometry(geometryType, hasZ, hasM), with the fields of the subclasses:
\* kids is _points, _rings, _lineStrings, _polygons or _geometries.
\* ctorZ, ctorM, addZ, addM and given are history fields: the flags at
\* construction, the OR of the flags the children had when they were added,
\* and the instances the add operations were given.
NewObj(c, hz, hm) ==
  [cls |-> c, type |-> CreateType(c), hasZ |-> hz, hasM |-> hm,
   kids |-> <<>>, x |-> 0, y |-> 0, z |-> Undef, m |-> Undef,
   ctorZ |-> hz, ctorM |-> hm, addZ |-> FALSE, addM |-> FALSE,
   given |-> <<>>]

Ids == 1..Len(heap)

IsPoint(h, i) == h[i].cls = "Point"

\* Geometry.updateZM
UpdateZM(o, child) ==
  [o EXCEPT !.hasZ = o.hasZ \/ child.hasZ,
            !.hasM = o.hasM \/ child.hasM]

\* addPoint / addRing / addLineString / addPolygon / addGeometry without the
\* flag update
AddChild_NoUpdateZM(h, c, k) ==
  [h EXCEPT ![c] = [@ EXCEPT !.kids = Append(@, k),
                             !.given = Append(@, k),
                             !.addZ = @ \/ h[k].hasZ,
                             !.addM = @ \/ h[k].hasM]]

\* addPoint keeping a copy of the point it is given
AddChild_StoreCopy(h, c, k) ==
  LET h1 == Append(h, h[k])
  IN [h1 EXCEPT ![c] = [UpdateZM(@, h[k]) EXCEPT
                             !.kids = Append(@, Len(h1)),
                             !.given = Append(@, k),
                             !.addZ = @ \/ h[k].hasZ,
                             !.addM = @ \/ h[k].hasM]]

\* addPoint / addRing / addLineString / addPolygon / addGeometry:
\* push the given reference, then updateZM
AddChild(h, c, k) ==
  [h EXCEPT ![c] = [UpdateZM(@, h[k]) EXCEPT
                             !.kids = Append(@, k),
                             !.given = Append(@, k),
                             !.addZ = @ \/ h[k].hasZ,
                             !.addM = @ \/ h[k].hasM]]

\* LineString.getPoint(n), 1-based
GetPoint(h, l, n) == h[h[l].kids[n]]

\* the objects reachable from an object: itself and its descendants
RECURSIVE Reach(_, _)
Reach(h, g) ==
  {g} \cup UNION {Reach(h, h[g].kids[i]) : i \in 1..Len(h[g].kids)}

-----------------------------------------------------------------------------
(* equals *)

\* Geometry.equals: the tag and the two flags
GeometryEquals(a, b) ==
  /\ a.type = b.type
  /\ a.hasZ = b.hasZ
  /\ a.hasM = b.hasM

\* the class whose equals() an object of class c runs
EqualsClass(c) ==
  CASE c = "Point" -> "Point"
    [] InstanceOf(c, "LineString") -> "LineString"
    [] c = "CompoundCurve" -> "CompoundCurve"
    [] InstanceOf(c, "CurvePolygon") -> "CurvePolygon"
    [] InstanceOf(c, "PolyhedralSurface") -> "PolyhedralSurface"
    [] c = "ExtendedGeometryCollection" -> "ExtendedGeometryCollection"
    [] OTHER -> "GeometryCollection"

\* a.equals(b) for the objects a and b of heap h
RECURSIVE Equals(_, _, _)
Equals(h, a, b) ==
  LET this == h[a]
      obj == h[b]
      e == EqualsClass(this.cls)
  IN CASE e = "Point" ->
            /\ GeometryEquals(this, obj)
            /\ InstanceOf(obj.cls, "Point")
            /\ this.m = obj.m
            /\ this.z = obj.z
            /\ this.x = obj.x
            /\ this.y = obj.y
       [] e = "ExtendedGeometryCollection" ->
            /\ InstanceOf(obj.cls, "ExtendedGeometryCollection")
            /\ this.type = obj.type
       [] OTHER ->
            \* LineString, CompoundCurve, CurvePolygon, PolyhedralSurface and
            \* GeometryCollection: instanceof, the same count, pairwise equals
            /\ InstanceOf(obj.cls, e)
            /\ Len(this.kids) = Len(obj.kids)
            /\ \A i \in 1..Len(this.kids) : Equals(h, this.kids[i], obj.kids[i])

-----------------------------------------------------------------------------
(* copy *)

\* Point.copy: create(hasZ, hasM), then the four setters
PointCopy(o) ==
  [NewObj("Point", o.hasZ, o.hasM) EXCEPT
     !.x = o.x,
     !.y = o.y,
     !.z = o.z, !.hasZ = (o.z # Undef),
     !.m = o.m, !.hasM = (o.m # Undef)]

\* g.copy() in heap h: the heap with the new objects and the copy's index
RECURSIVE CopyObj(_, _)
RECURSIVE CopyKids(_, _, _, _)
CopyObj(h, g) ==
  LET o == h[g]
      h1 == Append(h, NewObj(o.cls, o.hasZ, o.hasM))
      n == Len(h) + 1
  IN IF o.cls = "Point" THEN [h |-> Append(h, PointCopy(o)), id |-> n]
     ELSE CopyKids(h1, n, o.kids, 1)

\* the loop of copy(): GeometryCollection.copy adds the member itself, every
\* other class adds member.copy()
CopyKids(h, n, kids, i) ==
  IF i > Len(kids) THEN [h |-> h, id |-> n]
  ELSE IF h[n].cls = "GeometryCollection"
       THEN CopyKids(AddChild(h, n, kids[i]), n, kids, i + 1)
       ELSE LET r == CopyObj(h, kids[i])
            IN CopyKids(AddChild(r.h, n, r.id), n, kids, i + 1)

-----------------------------------------------------------------------------
(* Curves *)

Reverse(q) == [i \in 1..Len(q) |-> q[Len(q) + 1 - i]]

\* LineString.isEmpty, CompoundCurve.isEmpty, GeometryCollection.isEmpty
IsEmpty(h, g) == Len(h[g].kids) = 0

\* the first non-empty line string in a list of line strings, 0 if none
RECURSIVE FirstNonEmpty(_, _)
FirstNonEmpty(h, ls) ==
  IF ls = <<>> THEN 0
  ELSE IF ~IsEmpty(h, Head(ls)) THEN Head(ls)
  ELSE FirstNonEmpty(h, Tail(ls))

\* LineString.startPoint and LineString.endPoint of a non-empty line string
LineStartPoint(h, l) == h[l].kids[1]
LineEndPoint(h, l) == h[l].kids[Len(h[l].kids)]

\* CompoundCurve.startPoint: 0 when it throws
CompoundStartPoint(h, c) ==
  LET l == FirstNonEmpty(h, h[c].kids)
  IN IF l = 0 THEN 0 ELSE LineStartPoint(h, l)

\* CompoundCurve.endPoint: Array.prototype.reverse reverses _lineStrings in
\* place and the loop scans the reversed list; ret is 0 when it throws
CompoundEndPoint(h, c) ==
  LET h1 == [h EXCEPT ![c].kids = Reverse(@)]
      l == FirstNonEmpty(h1, h1[c].kids)
  IN [h |-> h1, ret |-> IF l = 0 THEN 0 ELSE LineEndPoint(h1, l)]

\* Curve.isClosed: not empty and startPoint().equals(endPoint())
IsClosed(h, l) ==
  /\ ~IsEmpty(h, l)
  /\ Equals(h, LineStartPoint(h, l), LineEndPoint(h, l))

\* the LinearRing points setter accepting rings of three points
RingSetPoints_Min3(h, r, pts) ==
  LET h1 == [h EXCEPT ![r].kids = pts, ![r].given = pts]
      h2 == IF ~IsEmpty(h1, r) /\ ~IsClosed(h1, r)
            THEN AddChild(h1, r, pts[1]) ELSE h1
  IN [h |-> h2, threw |-> ~IsEmpty(h1, r) /\ Len(h2[r].kids) < 3]

\* the LinearRing points setter: the LineString setter stores the list, an
\* open ring gets points[0] added, and fewer than four points throw
RingSetPoints(h, r, pts) ==
  LET h1 == [h EXCEPT ![r].kids = pts, ![r].given = pts]
      h2 == IF ~IsEmpty(h1, r) /\ ~IsClosed(h1, r)
            THEN AddChild(h1, r, pts[1]) ELSE h1
  IN [h |-> h2, threw |-> ~IsEmpty(h1, r) /\ Len(h2[r].kids) < 4]

-----------------------------------------------------------------------------
(* Collections *)

\* the value of a call that throws
Throws == 99

\* the result of a call that throws, where the result is no integer
Thrown == [cls |-> "SFException"]

\* GeometryCollection.isCollectionOfType
IsCollectionOfType(h, g, type) ==
  \A i \in 1..Len(h[g].kids) : InstanceOf(h[h[g].kids[i]].cls, type)

IsMultiPoint(h, g) ==
  InstanceOf(h[g].cls, "MultiPoint") \/ IsCollectionOfType(h, g, "Point")

IsMultiLineString(h, g) ==
  InstanceOf(h[g].cls, "MultiLineString")
    \/ IsCollectionOfType(h, g, "LineString")

IsMultiPolygon(h, g) ==
  InstanceOf(h[g].cls, "MultiPolygon") \/ IsCollectionOfType(h, g, "Polygon")

IsMultiCurve(h, g) ==
  InstanceOf(h[g].cls, "MultiLineString") \/ IsCollectionOfType(h, g, "Curve")

IsMultiSurface(h, g) ==
  InstanceOf(h[g].cls, "MultiPolygon") \/ IsCollectionOfType(h, g, "Surface")

\* getCollectionType testing the abstract kinds before the concrete ones
GetCollectionType_CurveFirst(h, g) ==
  LET t == h[g].type
  IN IF t \in {MultiPoint, MultiLineString, MultiPolygon} THEN t
     ELSE IF t \in {GeometryCollection, MultiCurve, MultiSurface}
     THEN IF IsMultiPoint(h, g) THEN MultiPoint
          ELSE IF IsMultiCurve(h, g) THEN MultiCurve
          ELSE IF IsMultiSurface(h, g) THEN MultiSurface
          ELSE IF IsMultiLineString(h, g) THEN MultiLineString
          ELSE IF IsMultiPolygon(h, g) THEN MultiPolygon
          ELSE t
     ELSE Throws

\* GeometryCollection.getCollectionType: starts from this.geometryType
GetCollectionType(h, g) ==
  LET t == h[g].type
  IN IF t \in {MultiPoint, MultiLineString, MultiPolygon} THEN t
     ELSE IF t \in {GeometryCollection, MultiCurve, MultiSurface}
     THEN IF IsMultiPoint(h, g) THEN MultiPoint
          ELSE IF IsMultiLineString(h, g) THEN MultiLineString
          ELSE IF IsMultiPolygon(h, g) THEN MultiPolygon
          ELSE IF IsMultiCurve(h, g) THEN MultiCurve
          ELSE IF IsMultiSurface(h, g) THEN MultiSurface
          ELSE t
     ELSE Throws

\* the type ExtendedGeometryCollection.updateGeometryType assigns, Throws
\* when it throws instead
UpdatedGeometryType(h, e) ==
  LET t == GetCollectionType(h, e)
  IN CASE t \in {GeometryCollection, MultiCurve, MultiSurface} -> t
       [] t = MultiPoint -> GeometryCollection
       [] t = MultiLineString -> MultiCurve
       [] t = MultiPolygon -> MultiSurface
       [] OTHER -> Throws

\* ExtendedGeometryCollection.createFromGeometryCollection: create, set the
\* type, add the members, updateGeometryType
RECURSIVE AddAll(_, _, _)
AddAll(h, c, ks) ==
  IF ks = <<>> THEN h ELSE AddAll(AddChild(h, c, Head(ks)), c, Tail(ks))

ExtendedFromCollection(h, g) ==
  LET n == Len(h) + 1
      h1 == Append(h, NewObj("ExtendedGeometryCollection",
                             h[g].hasZ, h[g].hasM))
      h2 == AddAll(h1, n, h[g].kids)
  IN [h2 EXCEPT ![n].type = UpdatedGeometryType(h2, n)]

-----------------------------------------------------------------------------
(* Serialisation *)

\* the object g of heap h as a value: its members in place of references
RECURSIVE Tree(_, _)
Tree(h, g) ==
  [h[g] EXCEPT !.kids = [i \in 1..Len(h[g].kids) |-> Tree(h, h[g].kids[i])]]

\* JSON.stringify of a property value: undefined is left out, Infinity is
\* written as null
JsonValue(v) ==
  IF v = Undef THEN Omitted ELSE IF v = Inf THEN Null ELSE v

\* GeometrySerializer.serialize: JSON.stringify writes the own properties
\* _geometryType, _hasZ, _hasM, the coordinates and the member list; the
\* class is not written
RECURSIVE Serialize(_)
Serialize(t) ==
  [type |-> t.type, hasZ |-> t.hasZ, hasM |-> t.hasM,
   x |-> JsonValue(t.x), z |-> JsonValue(t.z), m |-> JsonValue(t.m),
   kids |-> [i \in 1..Len(t.kids) |-> Serialize(t.kids[i])]]

\* reading a property of the object JSON.parse returns: undefined when the
\* document has no such property
JsonRead(v) == IF v = Omitted THEN Undef ELSE v

\* the class whose create() fromJSON calls for a type tag
ClassOfType(t) ==
  CASE t = Point -> "Point"
    [] t = LineString -> "LineString"
    [] t = Polygon -> "Polygon"
    [] t = MultiPoint -> "MultiPoint"
    [] t = MultiLineString -> "MultiLineString"
    [] t = MultiPolygon -> "MultiPolygon"
    [] t = GeometryCollection -> "GeometryCollection"
    [] t = CircularString -> "CircularString"
    [] t = CompoundCurve -> "CompoundCurve"
    [] t = CurvePolygon -> "CurvePolygon"
    [] t = PolyhedralSurface -> "PolyhedralSurface"
    [] t = Tin -> "TIN"
    [] t = Triangle -> "Triangle"

\* the add loop of fromJSON on values: push the member, then updateZM
RECURSIVE AddMembers(_, _)
AddMembers(o, ms) ==
  IF ms = <<>> THEN o
  ELSE AddMembers([UpdateZM(o, Head(ms)) EXCEPT !.kids = Append(@, Head(ms))],
                  Tail(ms))

\* fromJSON keeping the flags create() and the add loop gave
RECURSIVE FromJSON_NoFlags(_)
FromJSON_NoFlags(obj) ==
  LET o == NewObj(ClassOfType(obj.type), FALSE, FALSE)
      z == JsonRead(obj.z)
      m == JsonRead(obj.m)
  IN IF obj.type = Point
     THEN [o EXCEPT !.x = JsonRead(obj.x),
                    !.z = z, !.m = m,
                    !.hasZ = (z # Undef), !.hasM = (m # Undef)]
     ELSE AddMembers(o, [i \in 1..Len(obj.kids) |->
                           FromJSON_NoFlags(obj.kids[i])])

\* GeometrySerializer.fromJSON: create(), the setters or the add loop, then
\* hasZ and hasM are assigned from the document
RECURSIVE FromJSON(_)
FromJSON(obj) ==
  LET o == NewObj(ClassOfType(obj.type), FALSE, FALSE)
      z == JsonRead(obj.z)
      m == JsonRead(obj.m)
      p == [o EXCEPT !.x = JsonRead(obj.x),
                     !.z = z, !.m = m,
                     !.hasZ = (z # Undef), !.hasM = (m # Undef)]
      c == AddMembers(o, [i \in 1..Len(obj.kids) |-> FromJSON(obj.kids[i])])
  IN [(IF obj.type = Point THEN p ELSE c) EXCEPT
        !.hasZ = obj.hasZ, !.hasM = obj.hasM]

\* GeometrySerializer.deserialize(GeometrySerializer.serialize(g))
Deserialize(json) == FromJSON(json)

-----------------------------------------------------------------------------
(* GeometryUtils: simplification *)

\* points[i] of a JavaScript array, 1-based: 0 (undefined) outside the array
At(points, i) == IF i \in 1..Len(points) THEN points[i] ELSE 0

\* the square of GeometryUtils.perpendicularDistance as the fraction n/d
PerpendicularDistance2(point, lineStart, lineEnd) ==
  LET vX == lineEnd.x - lineStart.x
      vY == lineEnd.y - lineStart.y
      wX == point.x - lineStart.x
      wY == point.y - lineStart.y
      c1 == wX * vX + wY * vY
      c2 == vX * vX + vY * vY
  IN IF c1 <= 0 THEN [n |-> wX * wX + wY * wY, d |-> 1]
     ELSE IF c2 <= c1
          THEN [n |-> (lineEnd.x - point.x) * (lineEnd.x - point.x)
                        + (lineEnd.y - point.y) * (lineEnd.y - point.y),
                d |-> 1]
          ELSE [n |-> (wX * wX + wY * wY) * c2 - c1 * c1, d |-> c2]

\* the loop of _simplifyPoints from index i: the first index of the largest
\* distance and that distance
RECURSIVE FarthestPoint(_, _, _, _, _, _, _)
FarthestPoint(h, points, startIndex, endIndex, i, index, dmax) ==
  IF i >= endIndex THEN [index |-> index, dmax |-> dmax]
  ELSE LET d == PerpendicularDistance2(h[points[i]], h[points[startIndex]],
                                       h[points[endIndex]])
       IN IF d.n * dmax.d > dmax.n * d.d
          THEN FarthestPoint(h, points, startIndex, endIndex, i + 1, i, d)
          ELSE FarthestPoint(h, points, startIndex, endIndex, i + 1, index,
                             dmax)

\* GeometryUtils._simplifyPoints, indices 1-based
RECURSIVE SimplifyRange(_, _, _, _, _)
SimplifyRange(h, points, tolerance, startIndex, endIndex) ==
  LET f == FarthestPoint(h, points, startIndex, endIndex, startIndex + 1,
                         0, [n |-> 0, d |-> 1])
  IN IF f.dmax.n > tolerance * tolerance * f.dmax.d
     THEN LET r1 == SimplifyRange(h, points, tolerance, startIndex, f.index)
              r2 == SimplifyRange(h, points, tolerance, f.index, endIndex)
          IN SubSeq(r1, 1, Len(r1) - 1) \o r2
     ELSE <<At(points, startIndex), At(points, endIndex)>>

\* GeometryUtils.simplifyPoints
SimplifyPoints(h, points, tolerance) ==
  SimplifyRange(h, points, tolerance, 1, Len(points))

-----------------------------------------------------------------------------
(* Centroids *)

\* GeometryUtils.getDimension
RECURSIVE GetDimension(_, _)
RECURSIVE MaxDimension(_, _, _)
GetDimension(h, g) ==
  LET t == h[g].type
  IN CASE t \in {Point, MultiPoint} -> 0
       [] t \in {LineString, MultiLineString, CircularString, CompoundCurve}
            -> 1
       [] t \in {Polygon, CurvePolygon, MultiPolygon, PolyhedralSurface, Tin,
                 Triangle} -> 2
       [] t \in {GeometryCollection, MultiCurve, MultiSurface}
            -> MaxDimension(h, h[g].kids, -1)
       [] OTHER -> Throws

\* the loop of getDimension over the members
MaxDimension(h, ks, dimension) ==
  IF ks = <<>> THEN dimension
  ELSE LET d == GetDimension(h, Head(ks))
       IN MaxDimension(h, Tail(ks), IF d > dimension THEN d ELSE dimension)

\* CentroidSurface.area2: twice the signed area of a triangle
Area2(point1, point2, point3) ==
  (point2.x - point1.x) * (point3.y - point1.y)
    - (point3.x - point1.x) * (point2.y - point1.y)

\* CentroidSurface.addTriangle on the totals c = [base, area, sx, sy]
AddTriangle(c, sign, point1, point2, point3) ==
  LET area2 == Area2(point1, point2, point3)
  IN [c EXCEPT !.area = @ + sign * area2,
               !.sx = @ + sign * area2 * (point1.x + point2.x + point3.x),
               !.sy = @ + sign * area2 * (point1.y + point2.y + point3.y)]

\* the loop of addOrSubtractLine over the segments from index i
RECURSIVE AddSegments(_, _, _, _, _)
AddSegments(h, c, sign, points, i) ==
  IF i >= Len(points) THEN c
  ELSE AddSegments(h,
                   AddTriangle(c, sign, h[c.base], h[points[i]],
                               h[points[i + 1]]),
                   sign, points, i + 1)

\* CentroidSurface.addOrSubtractLine for a line string with points
AddOrSubtractLine(h, c, sign, lineString) ==
  LET points == h[lineString].kids
      firstPoint == points[1]
      lastPoint == points[Len(points)]
      c1 == IF c.base = 0 THEN [c EXCEPT !.base = firstPoint] ELSE c
      c2 == AddSegments(h, c1, sign, points, 1)
  IN IF h[firstPoint].x # h[lastPoint].x \/ h[firstPoint].y # h[lastPoint].y
     THEN AddTriangle(c2, sign, h[c2.base], h[lastPoint], h[firstPoint])
     ELSE c2

\* the hole loop of CentroidSurface.addPolygon from ring i
RECURSIVE AddHoles(_, _, _, _)
AddHoles(h, c, rings, i) ==
  IF i > Len(rings) THEN c
  ELSE AddHoles(h, AddOrSubtractLine(h, c, -1, rings[i]), rings, i + 1)

\* CentroidSurface.addPolygon
CentroidAddPolygon(h, c, polygon) ==
  AddHoles(h, AddOrSubtractLine(h, c, 1, h[polygon].kids[1]),
           h[polygon].kids, 2)

\* the loops over lineStrings in CentroidSurface.addCurvePolygon
RECURSIVE AddLineStrings(_, _, _, _)
AddLineStrings(h, c, sign, lineStrings) ==
  IF lineStrings = <<>> THEN c
  ELSE AddLineStrings(h, AddOrSubtractLine(h, c, sign, Head(lineStrings)),
                      sign, Tail(lineStrings))

\* the hole loop of CentroidSurface.addCurvePolygon from ring i: for a hole
\* that is a CompoundCurve it iterates (curve as CompoundCurve).lineStrings,
\* curve being rings[0]; a LineString has no lineStrings and the for-of over
\* undefined throws a TypeError
RECURSIVE AddCurveHoles(_, _, _, _)
AddCurveHoles(h, c, rings, i) ==
  IF i > Len(rings) THEN c
  ELSE LET curve == rings[1]
           curveHole == rings[i]
       IN IF h[curveHole].type = CompoundCurve
          THEN IF h[curve].cls # "CompoundCurve" THEN Thrown
               ELSE AddCurveHoles(h, AddLineStrings(h, c, -1, h[curve].kids),
                                  rings, i + 1)
          ELSE IF h[curveHole].type \in {LineString, CircularString}
          THEN AddCurveHoles(h, AddOrSubtractLine(h, c, -1, curveHole),
                             rings, i + 1)
          ELSE Thrown

\* CentroidSurface.addCurvePolygon: the totals, or Thrown
AddCurvePolygon(h, c, curvePolygon) ==
  LET rings == h[curvePolygon].kids
      curve == rings[1]
  IN IF h[curve].type = CompoundCurve
     THEN AddCurveHoles(h, AddLineStrings(h, c, 1, h[curve].kids), rings, 2)
     ELSE IF h[curve].type \in {LineString, CircularString}
     THEN AddCurveHoles(h, AddOrSubtractLine(h, c, 1, curve), rings, 2)
     ELSE Thrown

\* a new CentroidSurface: no base point, area and sums 0
NewCentroidSurface == [base |-> 0, area |-> 0, sx |-> 0, sy |-> 0]

\* CentroidSurface.getCentroid: sum / 3 / area, each coordinate kept as the
\* fraction n/d; d = 0 is the NaN or Infinity the division gives
SurfaceCentroid(c) ==
  [xn |-> c.sx, xd |-> 3 * c.area, yn |-> c.sy, yd |-> 3 * c.area]

\* the loop of CentroidPoint.add over the points of a MultiPoint
RECURSIVE SumPoints(_, _, _)
SumPoints(h, points, c) ==
  IF points = <<>> THEN c
  ELSE SumPoints(h, Tail(points),
                 [count |-> c.count + 1,
                  sx |-> c.sx + h[Head(points)].x,
                  sy |-> c.sy + h[Head(points)].y])

\* CentroidPoint.getCentroid: sum / count
PointCentroid(c) ==
  [xn |-> c.sx, xd |-> c.count, yn |-> c.sy, yd |-> c.count]

\* GeometryUtils.getCentroid of a MultiPoint or a Polygon
GetCentroid(h, g) ==
  IF GetDimension(h, g) = 0
  THEN PointCentroid(SumPoints(h, h[g].kids,
                               [count |-> 0, sx |-> 0, sy |-> 0]))
  ELSE SurfaceCentroid(CentroidAddPolygon(h, NewCentroidSurface, g))

-----------------------------------------------------------------------------
(* GeometryUtils: bound *)

\* GeometryUtils.boundPoint clamping x only
BoundPoint_XOnly(point, envelope) ==
  [point EXCEPT
     !.x = IF point.x < envelope.minX THEN envelope.minX
           ELSE IF point.x > envelope.maxX THEN envelope.maxX ELSE @]

\* GeometryUtils.boundPoint
BoundPoint(point, envelope) ==
  [point EXCEPT
     !.x = IF point.x < envelope.minX THEN envelope.minX
           ELSE IF point.x > envelope.maxX THEN envelope.maxX ELSE @,
     !.y = IF point.y < envelope.minY THEN envelope.minY
           ELSE IF point.y > envelope.maxY THEN envelope.maxY ELSE @]

\* GeometryUtils.bound and its helpers per type: each loops over the points,
\* rings, line strings, polygons or members and bounds them in place; the
\* switch has a case for every tag but Geometry, Curve and Surface
RECURSIVE Bound(_, _, _)
RECURSIVE BoundEach(_, _, _)
Bound(h, g, envelope) ==
  IF h[g].type = Point THEN [h EXCEPT ![g] = BoundPoint(@, envelope)]
  ELSE IF h[g].type \in {Geometry, Curve, Surface} THEN h  \* default: break
  ELSE BoundEach(h, h[g].kids, envelope)

BoundEach(h, ks, envelope) ==
  IF ks = <<>> THEN h
  ELSE BoundEach(Bound(h, Head(ks), envelope), Tail(ks), envelope)

-----------------------------------------------------------------------------
(* GeometryUtils: degrees and meters *)

\* GeometryConstants.WGS84_HALF_WORLD_LON_WIDTH
WGS84_HALF_WORLD_LON_WIDTH == 180

\* GeometryConstants.WEB_MERCATOR_HALF_WORLD_WIDTH, in whole meters
WEB_MERCATOR_HALF_WORLD_WIDTH == 20037508

\* the longitudes and latitudes, in degrees, the conversions are applied to
DegreesX == {0, 90}
DegreesY == {0, 45}

\* GeometryUtils.normalizeX
NormalizeX(x, maxX) ==
  IF x < -maxX THEN x + maxX * 2
  ELSE IF x > maxX THEN x - maxX * 2
  ELSE x

\* the y of degreesToMetersCoord, ln(tan((90 + y) * pi / 360)) scaled to
\* meters, at the latitudes of DegreesY and in whole meters
MercatorY(y) ==
  CASE y = 0 -> 0
    [] y = 45 -> 5621521

\* the y of metersToDegreesCoord, the atan(exp()) form, at the values of
\* MercatorY
InverseMercatorY(y) ==
  CASE y = 0 -> 0
    [] y = 5621521 -> 45

\* GeometryUtils.degreesToMetersCoord: Point.createFromXY(xValue, yValue)
DegreesToMetersCoord(x, y) ==
  [NewObj("Point", FALSE, FALSE) EXCEPT
     !.x = (NormalizeX(x, WGS84_HALF_WORLD_LON_WIDTH)
              * WEB_MERCATOR_HALF_WORLD_WIDTH) \div WGS84_HALF_WORLD_LON_WIDTH,
     !.y = MercatorY(y)]

\* GeometryUtils.metersToDegreesCoord
MetersToDegreesCoord(x, y) ==
  [NewObj("Point", FALSE, FALSE) EXCEPT
     !.x = (x * WGS84_HALF_WORLD_LON_WIDTH) \div WEB_MERCATOR_HALF_WORLD_WIDTH,
     !.y = InverseMercatorY(y)]

\* the values the two directions accept in the scenarios
MetersX == {DegreesToMetersCoord(x, 0).x : x \in DegreesX}
MetersY == {MercatorY(y) : y \in DegreesY}

\* the z and m setters on the converted point
WithZM(value, point) ==
  [value EXCEPT !.z = point.z, !.hasZ = (point.z # Undef),
                !.m = point.m, !.hasM = (point.m # Undef)]

\* degreesToMetersPoint / metersToDegreesPoint converting a point whatever
\* its z and m
ConvertPoint_NoCheck(point, toMeters) ==
  WithZM(IF toMeters THEN DegreesToMetersCoord(point.x, point.y)
         ELSE MetersToDegreesCoord(point.x, point.y), point)

\* GeometryUtils.degreesToMetersPoint (toMeters) and metersToDegreesPoint
ConvertPoint(point, toMeters) ==
  IF point.z = Undef \/ point.m = Undef THEN Thrown
  ELSE WithZM(IF toMeters THEN DegreesToMetersCoord(point.x, point.y)
              ELSE MetersToDegreesCoord(point.x, point.y), point)

DegreesToMetersPoint(point) == ConvertPoint(point, TRUE)

MetersToDegreesPoint(point) == ConvertPoint(point, FALSE)

\* the conversion of point p of heap h: the heap with the new point and its
\* index, 0 when the conversion throws
ConvertPointIn(h, p, toMeters) ==
  LET value == ConvertPoint(h[p], toMeters)
  IN IF value = Thrown THEN [h |-> h, id |-> 0]
     ELSE [h |-> Append(h, value), id |-> Len(h) + 1]

\* GeometryUtils.degreesToMeters (toMeters) and metersToDegrees, with the
\* helpers per type: ConvertAs is degreesToMetersLineString, ...Polygon,
\* ...MultiPoint, ... creating an object of class c with the flags of g and
\* adding the converted members; ConvertMembers is their loop
RECURSIVE Convert(_, _, _)
RECURSIVE ConvertAs(_, _, _, _)
RECURSIVE ConvertMembers(_, _, _, _, _)
ConvertMembers(h, n, kids, i, toMeters) ==
  IF i > Len(kids) THEN [h |-> h, id |-> n]
  ELSE LET element == ElementClass(h[n].cls)
           r == CASE element = "Point" -> ConvertPointIn(h, kids[i], toMeters)
                  [] element \in {"LineString", "Polygon"}
                       -> ConvertAs(h, kids[i], element, toMeters)
                  [] OTHER -> Convert(h, kids[i], toMeters)
       IN IF r.id = 0 THEN r
          ELSE ConvertMembers(AddChild(r.h, n, r.id), n, kids, i + 1, toMeters)

ConvertAs(h, g, c, toMeters) ==
  LET meters == IF c = "GeometryCollection" THEN NewObj(c, FALSE, FALSE)
                ELSE NewObj(c, h[g].hasZ, h[g].hasM)
  IN ConvertMembers(Append(h, meters), Len(h) + 1, h[g].kids, 1, toMeters)

\* the switch on geometry.geometryType; metersToDegrees calls
\* degreesToMetersPolygon for a Triangle
Convert(h, g, toMeters) ==
  LET t == h[g].type
  IN CASE t = Point -> ConvertPointIn(h, g, toMeters)
       [] t = LineString -> ConvertAs(h, g, "LineString", toMeters)
       [] t = Polygon -> ConvertAs(h, g, "Polygon", toMeters)
       [] t = MultiPoint -> ConvertAs(h, g, "MultiPoint", toMeters)
       [] t = MultiLineString -> ConvertAs(h, g, "MultiLineString", toMeters)
       [] t = MultiPolygon -> ConvertAs(h, g, "MultiPolygon", toMeters)
       [] t = CircularString -> ConvertAs(h, g, "CircularString", toMeters)
       [] t = CompoundCurve -> ConvertAs(h, g, "CompoundCurve", toMeters)
       [] t = CurvePolygon -> ConvertAs(h, g, "CurvePolygon", toMeters)
       [] t \in {PolyhedralSurface, Tin}
            -> ConvertAs(h, g, "PolyhedralSurface", toMeters)
       [] t = Triangle -> ConvertAs(h, g, "Polygon", TRUE)
       [] t \in {GeometryCollection, MultiCurve, MultiSurface}
            -> ConvertAs(h, g, "GeometryCollection", toMeters)
       [] OTHER -> [h |-> h, id |-> 0]

DegreesToMeters(h, g) == Convert(h, g, TRUE)

MetersToDegrees(h, g) == Convert(h, g, FALSE)

-----------------------------------------------------------------------------
(* GeometryUtils: the hierarchy of geometry types *)

\* GeometryType.values()
GeometryTypes ==
  {Geometry, Point, LineString, Polygon, MultiPoint, MultiLineString,
   MultiPolygon, GeometryCollection, CircularString, CompoundCurve,
   CurvePolygon, MultiCurve, MultiSurface, Curve, Surface, PolyhedralSurface,
   Tin, Triangle}

\* GeometryUtils.parentType with Surface as the parent of Triangle
ParentType_TriangleSurface(geometryType) ==
  CASE geometryType = Geometry -> Undef
    [] geometryType \in {Point, GeometryCollection, Curve} -> Geometry
    [] geometryType \in {LineString, CompoundCurve} -> Curve
    [] geometryType = Polygon -> CurvePolygon
    [] geometryType \in {MultiPoint, MultiCurve, MultiSurface}
         -> GeometryCollection
    [] geometryType = MultiLineString -> MultiCurve
    [] geometryType = MultiPolygon -> MultiSurface
    [] geometryType = CircularString -> LineString
    [] geometryType \in {CurvePolygon, PolyhedralSurface, Triangle} -> Surface
    [] geometryType = Surface -> Geometry
    [] geometryType = Tin -> PolyhedralSurface

\* GeometryUtils.parentType: Undef for undefined
ParentType(geometryType) ==
  CASE geometryType = Geometry -> Undef
    [] geometryType = Point -> Geometry
    [] geometryType = LineString -> Curve
    [] geometryType = Polygon -> CurvePolygon
    [] geometryType = MultiPoint -> GeometryCollection
    [] geometryType = MultiLineString -> MultiCurve
    [] geometryType = MultiPolygon -> MultiSurface
    [] geometryType = GeometryCollection -> Geometry
    [] geometryType = CircularString -> LineString
    [] geometryType = CompoundCurve -> Curve
    [] geometryType = CurvePolygon -> Surface
    [] geometryType = MultiCurve -> GeometryCollection
    [] geometryType = MultiSurface -> GeometryCollection
    [] geometryType = Curve -> Geometry
    [] geometryType = Surface -> Geometry
    [] geometryType = PolyhedralSurface -> Surface
    [] geometryType = Tin -> PolyhedralSurface
    [] geometryType = Triangle -> Polygon

\* GeometryUtils.parentHierarchy
RECURSIVE ParentHierarchy(_)
ParentHierarchy(geometryType) ==
  LET parentType == ParentType(geometryType)
  IN IF parentType = Undef THEN <<>>
     ELSE <<parentType>> \o ParentHierarchy(parentType)

\* GeometryUtils.childTypes
ChildTypes(geometryType) ==
  CASE geometryType = Geometry
         -> <<Point, GeometryCollection, Curve, Surface>>
    [] geometryType = LineString -> <<CircularString>>
    [] geometryType = Polygon -> <<Triangle>>
    [] geometryType = GeometryCollection
         -> <<MultiPoint, MultiCurve, MultiSurface>>
    [] geometryType = CurvePolygon -> <<Polygon>>
    [] geometryType = MultiCurve -> <<MultiLineString>>
    [] geometryType = MultiSurface -> <<MultiPolygon>>
    [] geometryType = Curve -> <<LineString, CompoundCurve>>
    [] geometryType = Surface -> <<CurvePolygon, PolyhedralSurface>>
    [] geometryType = PolyhedralSurface -> <<Tin>>
    [] geometryType \in {Point, MultiPoint, MultiLineString, MultiPolygon,
                         CircularString, CompoundCurve, Tin, Triangle}
         -> <<>>

\* GeometryUtils.childHierarchy: the map as a list of <<child, hierarchy>>
\* entries, Undef for undefined
RECURSIVE ChildHierarchy(_)
ChildHierarchy(geometryType) ==
  LET childTypes == ChildTypes(geometryType)
  IN IF Len(childTypes) = 0 THEN Undef
     ELSE [i \in 1..Len(childTypes) |->
             <<childTypes[i], ChildHierarchy(childTypes[i])>>]

-----------------------------------------------------------------------------
(* GeometryUtils: minimize *)

\* the x of nextPoint after the two tests of the loop body against point
MinimizeX(x, nextX, maxX) ==
  IF x < nextX
  THEN IF nextX - x > x - nextX + maxX * 2 THEN nextX - maxX * 2 ELSE nextX
  ELSE IF x > nextX
  THEN IF x - nextX > nextX - x + maxX * 2 THEN nextX + maxX * 2 ELSE nextX
  ELSE nextX

\* the loop of GeometryUtils.minimizeLineString from index i: point stays
\* points[0] throughout, the loop never assigns it
RECURSIVE MinimizeFrom(_, _, _, _, _)
MinimizeFrom(h, points, point, i, maxX) ==
  IF i > Len(points) THEN h
  ELSE MinimizeFrom(
         [h EXCEPT ![points[i]].x = MinimizeX(h[point].x, @, maxX)],
         points, point, i + 1, maxX)

\* GeometryUtils.minimizeLineString
MinimizeLineString(h, lineString, maxX) ==
  LET points == h[lineString].kids
  IN IF Len(points) > 1 THEN MinimizeFrom(h, points, points[1], 2, maxX)
     ELSE h

-----------------------------------------------------------------------------
(* GeometryUtils: normalize *)

\* GeometryUtils.normalizePoint without the test for x < -maxX
NormalizePoint_DownOnly(point, maxX) ==
  [point EXCEPT !.x = IF @ > maxX THEN @ - maxX * 2 ELSE @]

\* GeometryUtils.normalizePoint
NormalizePoint(point, maxX) ==
  [point EXCEPT !.x = IF @ < -maxX THEN @ + maxX * 2
                      ELSE IF @ > maxX THEN @ - maxX * 2
                      ELSE @]

\* the loop of GeometryUtils.normalizeLineString
RECURSIVE NormalizeEach(_, _, _)
NormalizeEach(h, points, maxX) ==
  IF points = <<>> THEN h
  ELSE NormalizeEach(
         [h EXCEPT ![Head(points)] = NormalizePoint(h[Head(points)], maxX)],
         Tail(points), maxX)

\* GeometryUtils.normalizeLineString
NormalizeLineString(h, lineString, maxX) ==
  NormalizeEach(h, h[lineString].kids, maxX)

-----------------------------------------------------------------------------
(* GeometryUtils: cropPoints *)

\* GeometryUtils.containsPoint: envelope.containsPointWithEpsilon with an
\* epsilon below the grid step
ContainsPoint(envelope, point) ==
  /\ point.x >= envelope.minX
  /\ point.x <= envelope.maxX
  /\ point.y >= envelope.minY
  /\ point.y <= envelope.maxY

\* GeometryUtils.metersToDegreesLine(Line.createFromTwoPoints(p, q)): does it
\* throw
MetersToDegreesLineThrows(p, q) ==
  \/ p.z = Undef \/ p.m = Undef
  \/ q.z = Undef \/ q.m = Undef

\* an array of points
Array(points) == [cls |-> "Array", points |-> points]

\* the for loop of GeometryUtils.cropPoints from index i: the crop array, or
\* Thrown.  A pair of consecutive points not both contained goes through
\* metersToDegreesLine first, which throws for points without z or m; the
\* intersections computed after it for points with z and m are not modelled.
RECURSIVE CropLoop(_, _, _, _, _, _)
CropLoop(h, points, envelope, i, crop, previousContains) ==
  IF i > Len(points) THEN Array(crop)
  ELSE LET point == points[i]
           contains == ContainsPoint(envelope, h[point])
       IN IF /\ i > 1
             /\ ~(contains /\ previousContains)
             /\ MetersToDegreesLineThrows(h[points[i - 1]], h[point])
          THEN Thrown
          ELSE CropLoop(h, points, envelope, i + 1,
                        IF contains THEN Append(crop, point) ELSE crop,
                        contains)

\* GeometryUtils.cropPoints: after the loop, `if (crop.length > 0) crop = []`;
\* the else-if branch for crop.length > 1 cannot be taken
CropPoints(h, points, envelope) ==
  LET crop == CropLoop(h, points, envelope, 1, <<>>, FALSE)
  IN IF crop = Thrown THEN Thrown
     ELSE IF Len(crop.points) > 0 THEN Array(<<>>)
     ELSE crop

-----------------------------------------------------------------------------
(* GeometryEnvelope *)

Max(a, b) == IF a > b THEN a ELSE b

Min(a, b) == IF a < b THEN a ELSE b

\* GeometryEnvelope.overlap: the overlap envelope, or Thrown
Overlap(this, envelope, allowEmpty) ==
  LET minX == Max(this.minX, envelope.minX)
      maxX == Min(this.maxX, envelope.maxX)
      minY == Max(this.minY, envelope.minY)
      maxY == Min(this.maxY, envelope.maxY)
  IN IF \/ minX < maxX /\ minY < maxY
        \/ allowEmpty /\ minX <= maxX /\ minY <= maxY
     THEN [minX |-> minX, maxX |-> maxX, minY |-> minY, maxY |-> maxY]
     ELSE Thrown

\* GeometryEnvelope.intersects: overlap(...) !== undefined, which is true of
\* every envelope overlap returns (1 for true), or Throws when overlap throws
Intersects(this, envelope, allowEmpty) ==
  LET overlap == Overlap(this, envelope, allowEmpty)
  IN IF overlap = Thrown THEN Throws ELSE 1

-----------------------------------------------------------------------------
(* GeometryUtils: crop of geometries *)

\* a result [h, id] of a call that builds objects: id is the object returned,
\* Undef for undefined and 0 when the call threw
Result(h, id) == [h |-> h, id |-> id]

\* GeometryUtils.cropPoint
CropPoint(h, point, envelope) ==
  IF ContainsPoint(envelope, h[point])
  THEN Result(Append(h, PointCopy(h[point])), Len(h) + 1)
  ELSE Result(h, Undef)

\* GeometryUtils.cropLineString, cropLine and cropCircularString, c their
\* class: `if (cropPoints)` holds for every array, the empty one included
CropLineString(h, lineString, envelope, c) ==
  LET cropPoints == CropPoints(h, h[lineString].kids, envelope)
      crop == [NewObj(c, h[lineString].hasZ, h[lineString].hasM)
                 EXCEPT !.kids = cropPoints.points]
  IN IF cropPoints = Thrown THEN Result(h, 0)
     ELSE Result(Append(h, crop), Len(h) + 1)

\* cropPoint over the points of a list: the heap with the copies and the
\* list of the copies
RECURSIVE CropEachPoint(_, _, _, _)
CropEachPoint(h, points, envelope, cropPoints) ==
  IF points = <<>> THEN [h |-> h, crops |-> cropPoints]
  ELSE LET r == CropPoint(h, Head(points), envelope)
       IN CropEachPoint(r.h, Tail(points), envelope,
                        IF r.id = Undef THEN cropPoints
                        ELSE Append(cropPoints, r.id))

\* GeometryUtils.cropMultiPoint: the points setter adds the points one by one
CropMultiPoint(h, multiPoint, envelope) ==
  LET r == CropEachPoint(h, h[multiPoint].kids, envelope, <<>>)
      crop == NewObj("MultiPoint", h[multiPoint].hasZ, h[multiPoint].hasM)
  IN IF Len(r.crops) > 0
     THEN Result(AddAll(Append(r.h, crop), Len(r.h) + 1, r.crops),
                 Len(r.h) + 1)
     ELSE Result(r.h, Undef)

\* the ring loop of GeometryUtils.cropPolygon from ring i: an open ring gets
\* points[0].copy() pushed onto its own points array (a TypeError for a ring
\* without points); thrown tells whether the loop threw
RECURSIVE CropRings(_, _, _, _, _)
CropRings(h, rings, i, envelope, cropRings) ==
  IF i > Len(rings) THEN [h |-> h, crops |-> cropRings, thrown |-> FALSE]
  ELSE LET ring == rings[i]
           h1 == IF IsClosed(h, ring) THEN h
                 ELSE [Append(h, PointCopy(h[h[ring].kids[1]]))
                         EXCEPT ![ring].kids = Append(@, Len(h) + 1)]
           cropPoints == CropPoints(h1, h1[ring].kids, envelope)
           cropRing == [NewObj("LineString", h[ring].hasZ, h[ring].hasM)
                          EXCEPT !.kids = cropPoints.points]
       IN IF IsEmpty(h, ring)
          THEN [h |-> h, crops |-> cropRings, thrown |-> TRUE]
          ELSE IF cropPoints = Thrown
          THEN [h |-> h1, crops |-> cropRings, thrown |-> TRUE]
          ELSE CropRings(Append(h1, cropRing), rings, i + 1, envelope,
                         Append(cropRings, Len(h1) + 1))

\* GeometryUtils.cropPolygon: the rings setter adds the rings one by one
CropPolygon(h, polygon, envelope) ==
  LET r == CropRings(h, h[polygon].kids, 1, envelope, <<>>)
      crop == NewObj("Polygon", h[polygon].hasZ, h[polygon].hasM)
  IN IF r.thrown THEN Result(r.h, 0)
     ELSE IF Len(r.crops) > 0
     THEN Result(AddAll(Append(r.h, crop), Len(r.h) + 1, r.crops),
                 Len(r.h) + 1)
     ELSE Result(r.h, Undef)

\* the polygon loop of GeometryUtils.cropMultiPolygon, r the crop of the
\* first polygon of the list
RECURSIVE CropPolygons(_, _, _, _)
CropPolygonsNext(r, polygons, envelope, cropPolygons) ==
  IF r.id = 0 THEN [h |-> r.h, crops |-> cropPolygons, thrown |-> TRUE]
  ELSE CropPolygons(r.h, Tail(polygons), envelope,
                    IF r.id = Undef THEN cropPolygons
                    ELSE Append(cropPolygons, r.id))

CropPolygons(h, polygons, envelope, cropPolygons) ==
  IF polygons = <<>> THEN [h |-> h, crops |-> cropPolygons, thrown |-> FALSE]
  ELSE CropPolygonsNext(CropPolygon(h, Head(polygons), envelope),
                        polygons, envelope, cropPolygons)

\* the end of GeometryUtils.cropMultiPolygon, r the result of the loop: the
\* call throws when no polygon is left
MultiPolygonOf(multiPolygon, r) ==
  IF r.thrown THEN Result(r.h, 0)
  ELSE IF Len(r.crops) > 0
  THEN Result(AddAll(Append(r.h, NewObj("MultiPolygon", multiPolygon.hasZ,
                                        multiPolygon.hasM)),
                     Len(r.h) + 1, r.crops),
              Len(r.h) + 1)
  ELSE Result(r.h, 0)

\* GeometryUtils.cropMultiPolygon
CropMultiPolygon(h, multiPolygon, envelope) ==
  MultiPolygonOf(h[multiPolygon],
                 CropPolygons(h, h[multiPolygon].kids, envelope, <<>>))

-----------------------------------------------------------------------------
(* Bulk setters and createFrom factories *)

\* the static Geometry.hasZ(geometries) and Geometry.hasM(geometries)
HasZ(h, geometries) ==
  \E i \in 1..Len(geometries) : h[geometries[i]].hasZ

HasM(h, geometries) ==
  \E i \in 1..Len(geometries) : h[geometries[i]].hasM

\* the setters LineString.points, CompoundCurve.lineStrings,
\* PolyhedralSurface.polygons and PolyhedralSurface.patches: the list is
\* stored, nothing else changes
AssignChildren(h, c, children) ==
  [h EXCEPT ![c].kids = children, ![c].given = children]

\* the setter GeometryCollection.geometries: the list is emptied and the
\* geometries are added one by one
SetGeometries(h, c, geometries) ==
  AddAll([h EXCEPT ![c].kids = <<>>, ![c].given = <<>>], c, geometries)

\* PolyhedralSurface.createFromPolygons
PolyhedralSurfaceFromPolygons(h, polygons) ==
  LET polyhedralSurface == NewObj("PolyhedralSurface", HasZ(h, polygons),
                                  HasM(h, polygons))
  IN Result(AssignChildren(Append(h, polyhedralSurface), Len(h) + 1, polygons),
            Len(h) + 1)

\* TIN.createFromPolygons: the flags of polygons[0], a TypeError for a list
\* without polygons
TINFromPolygons(h, polygons) ==
  IF polygons = <<>> THEN Result(h, 0)
  ELSE LET tin == NewObj("TIN", h[polygons[1]].hasZ, h[polygons[1]].hasM)
       IN Result(AssignChildren(Append(h, tin), Len(h) + 1, polygons),
                 Len(h) + 1)

\* MultiPoint.createFromPoints
MultiPointFromPoints(h, points) ==
  LET multiPoint == NewObj("MultiPoint", HasZ(h, points), HasM(h, points))
  IN Result(AddAll(Append(h, multiPoint), Len(h) + 1, points), Len(h) + 1)

-----------------------------------------------------------------------------
(* Sweep line: the event queue *)

\* EventType
Left == 0
Right == 1

\* SweepLine.xyOrder: by x, then by y
XyOrder(point1, point2) ==
  IF point1.x > point2.x THEN 1
  ELSE IF point1.x < point2.x THEN -1
  ELSE IF point1.y > point2.y THEN 1
  ELSE IF point1.y < point2.y THEN -1
  ELSE 0

\* new Event(edge, ring, point, type)
Event(edge, ring, point, type) ==
  [edge |-> edge, ring |-> ring, point |-> point, type |-> type]

\* the loop of EventQueue.addRing from edge i, edges and rings counted from 0
RECURSIVE AddRing(_, _, _, _, _)
AddRing(h, events, ring, ringIndex, i) ==
  LET points == h[ring].kids
      point1 == points[i + 1]
      point2 == points[((i + 1) % Len(points)) + 1]
      type1 == IF XyOrder(h[point1], h[point2]) < 0 THEN Left ELSE Right
      type2 == IF XyOrder(h[point1], h[point2]) < 0 THEN Right ELSE Left
  IN IF i >= Len(points) THEN events
     ELSE AddRing(h, events \o <<Event(i, ringIndex, point1, type1),
                                 Event(i, ringIndex, point2, type2)>>,
                  ring, ringIndex, i + 1)

\* an event put into a sorted list after the events that are not larger
RECURSIVE SortedInsert(_, _, _)
SortedInsert(h, sorted, event) ==
  IF sorted # <<>>
     /\ XyOrder(h[sorted[Len(sorted)].point], h[event.point]) > 0
  THEN Append(SortedInsert(h, SubSeq(sorted, 1, Len(sorted) - 1), event),
              sorted[Len(sorted)])
  ELSE Append(sorted, event)

\* EventQueue.sort: a stable sort by xyOrder of the points
RECURSIVE SortFrom(_, _, _)
SortFrom(h, sorted, events) ==
  IF events = <<>> THEN sorted
  ELSE SortFrom(h, SortedInsert(h, sorted, Head(events)), Tail(events))

Sort(h, events) == SortFrom(h, <<>>, events)

\* the loop of EventQueue.createFromLineStrings from ring i, counted from 0
RECURSIVE AddRings(_, _, _, _)
AddRings(h, events, rings, i) ==
  IF i >= Len(rings) THEN events
  ELSE AddRings(h, AddRing(h, events, rings[i + 1], i, 0), rings, i + 1)

\* EventQueue.createFromLineStrings: the events of the queue
EventQueueFromLineStrings(h, rings) == Sort(h, AddRings(h, <<>>, rings, 0))

\* EventQueue.createFromLineString
EventQueueFromLineString(h, ring) == Sort(h, AddRing(h, <<>>, ring, 0, 0))

-----------------------------------------------------------------------------
(* Operations *)

\* the rank of a class: a container holds objects of lower rank only, which
\* keeps the object graph acyclic
Rank(c) ==
  CASE c = "Point" -> 0
    [] InstanceOf(c, "LineString") -> 1
    [] c = "CompoundCurve" -> 2
    [] InstanceOf(c, "CurvePolygon") -> 3
    [] InstanceOf(c, "PolyhedralSurface") -> 4
    [] OTHER -> 5

\* the last call that returned a value or threw, for the claims about calls:
\* its name, its receiver a, its integer argument or result b, and the list
\* val it was given or returned
OpVal(name, a, b, val) == [op |-> name, a |-> a, b |-> b, val |-> val]

Op(name, a, b) == OpVal(name, a, b, <<>>)

Nop == Op("", 0, 0)

\* the scenarios create their objects in the order of the class ranks
RECURSIVE MaxRank(_)
MaxRank(h) ==
  IF h = <<>> THEN 0
  ELSE LET r == MaxRank(SubSeq(h, 1, Len(h) - 1))
           q == Rank(h[Len(h)].cls)
       IN IF q > r THEN q ELSE r

\* the static create(hasZ, hasM) of a class
Create(c, hz, hm) ==
  /\ MaxRank(heap) <= Rank(c)
  /\ heap' = Append(heap, NewObj(c, hz, hm))
  /\ last' = Nop

\* Point.x setter
SetX(p, v) ==
  /\ IsPoint(heap, p)
  /\ heap' = [heap EXCEPT ![p].x = v]
  /\ last' = Op("setX", p, v)

\* Point.z setter
SetZ(p, v) ==
  /\ IsPoint(heap, p)
  /\ heap' = [heap EXCEPT ![p].z = v, ![p].hasZ = (v # Undef)]
  /\ last' = Nop

\* Point.m setter
SetM(p, v) ==
  /\ IsPoint(heap, p)
  /\ heap' = [heap EXCEPT ![p].m = v, ![p].hasM = (v # Undef)]
  /\ last' = Nop

\* container.addX(child)
Add(c, k) ==
  /\ ElementClass(heap[c].cls) # ""
  /\ InstanceOf(heap[k].cls, ElementClass(heap[c].cls))
  /\ Rank(heap[k].cls) < Rank(heap[c].cls)
  /\ heap' = AddChild(heap, c, k)
  /\ last' = Nop

\* g.copy(); ExtendedGeometryCollection.copy also copies the editable type
Copy(g) ==
  LET r == CopyObj(heap, g)
  IN /\ heap' = [r.h EXCEPT ![r.id].type = heap[g].type]
     /\ last' = Op("copy", g, r.id)

\* CompoundCurve.endPoint()
EndPoint(c) ==
  LET r == CompoundEndPoint(heap, c)
  IN /\ heap[c].cls = "CompoundCurve"
     /\ heap' = r.h
     /\ last' = Op("endPoint", c, r.ret)

\* linearRing.points = pts
SetPoints(r, pts) ==
  LET res == RingSetPoints(heap, r, pts)
  IN /\ heap[r].cls = "LinearRing"
     /\ \A i \in 1..Len(pts) : IsPoint(heap, pts[i])
     /\ heap' = res.h
     /\ last' = OpVal("setPoints", r, IF res.threw THEN 1 ELSE 0, pts)

\* ExtendedGeometryCollection.createFromGeometryCollection(g)
CreateFromGeometryCollection(g) ==
  /\ InstanceOf(heap[g].cls, "GeometryCollection")
  /\ heap[g].cls # "ExtendedGeometryCollection"
  /\ heap' = ExtendedFromCollection(heap, g)
  /\ last' = Op("updateGeometryType", Len(heap'), heap'[Len(heap')].type)

\* the geometryType setter of ExtendedGeometryCollection
SetGeometryType(e, t) ==
  /\ heap[e].cls = "ExtendedGeometryCollection"
  /\ heap' = [heap EXCEPT ![e].type = t]
  /\ last' = Nop

\* ExtendedGeometryCollection.updateGeometryType(): a call that throws
\* leaves the type as it was
UpdateGeometryType(e) ==
  LET t == UpdatedGeometryType(heap, e)
  IN /\ heap[e].cls = "ExtendedGeometryCollection"
     /\ heap' = [heap EXCEPT ![e].type = IF t = Throws THEN @ ELSE t]
     /\ last' = Op("updateGeometryType", e, t)

\* GeometrySerializer.deserialize(GeometrySerializer.serialize(g)): the
\* geometry returned is recorded
RoundTrip(g) ==
  /\ heap' = heap
  /\ last' = OpVal("roundTrip", g, 0,
                   <<Deserialize(Serialize(Tree(heap, g)))>>)

-----------------------------------------------------------------------------
(* Specification Spec: points and containers with their Z/M flags *)

Classes == {"Point", "LineString", "GeometryCollection"}

\* the flags the containers are created with
CtorFlags == {<<FALSE, FALSE>>, <<TRUE, FALSE>>, <<FALSE, TRUE>>}

Init ==
  /\ heap = <<>>
  /\ last = Nop

Next ==
  \/ \E c \in Classes, f \in CtorFlags :
        /\ Len(heap) < MaxObj
        /\ c = "Point" => f = <<FALSE, FALSE>>
        /\ Create(c, f[1], f[2])
  \/ \E p \in Ids, v \in Optional : SetZ(p, v)
  \/ \E p \in Ids, v \in Optional : SetM(p, v)
  \/ \E c \in Ids, k \in Ids : Len(heap[c].kids) < MaxKids /\ Add(c, k)

Spec == Init /\ [][Next]_vars

-----------------------------------------------------------------------------
(* C1: a container's hasZ is its hasZ at construction OR-ed with the hasZ  *)
(* each child had when it was added, whatever happened to the children     *)
(* since; the same for hasM.                                               *)
C1_FlagsAreCtorOrAdded ==
  \A c \in Ids :
    ~IsPoint(heap, c) =>
      /\ heap[c].hasZ = (heap[c].ctorZ \/ heap[c].addZ)
      /\ heap[c].hasM = (heap[c].ctorM \/ heap[c].addM)

\* a point that was added with z has had its z cleared since, and the
\* container, created without z, still reports hasZ
C1_Witness ==
  \E c \in Ids :
    /\ ~IsPoint(heap, c)
    /\ ~heap[c].ctorZ
    /\ heap[c].hasZ
    /\ Len(heap[c].kids) > 0
    /\ \A i \in 1..Len(heap[c].kids) : ~heap[heap[c].kids[i]].hasZ

-----------------------------------------------------------------------------
(* C3: a.equals(b) only if a and b have the same geometryType, the same    *)
(* hasZ and hasM, the same number of children and pairwise-equal children  *)
(* in the same order.                                                      *)
C3_EqualsIsStructural ==
  \A a \in Ids, b \in Ids :
    Equals(heap, a, b) =>
      /\ heap[a].type = heap[b].type
      /\ heap[a].hasZ = heap[b].hasZ
      /\ heap[a].hasM = heap[b].hasM
      /\ Len(heap[a].kids) = Len(heap[b].kids)
      /\ \A i \in 1..Len(heap[a].kids) :
           Equals(heap, heap[a].kids[i], heap[b].kids[i])

-----------------------------------------------------------------------------
(* Specification SpecRef: references, aliases and copies *)

MaxObjRef == 4
MaxKidsRef == 2

RefClasses == {"Point", "LineString", "GeometryCollection"}

NextRef ==
  \/ \E c \in RefClasses : Len(heap) < MaxObjRef /\ Create(c, FALSE, FALSE)
  \/ \E p \in Ids, v \in Coord : SetX(p, v)
  \/ \E c \in Ids, k \in Ids : Len(heap[c].kids) < MaxKidsRef /\ Add(c, k)
  \/ \E g \in Ids : Copy(g) /\ Len(heap') <= MaxObjRef

SpecRef == Init /\ [][NextRef]_vars

-----------------------------------------------------------------------------
(* C2: the geometry copy() returns shares no Point and no sub-geometry    *)
(* instance with the original, for every class.                            *)
C2_CopySharesNothing ==
  last.op = "copy" => Reach(heap, last.a) \cap Reach(heap, last.b) = {}

-----------------------------------------------------------------------------
(* Specification SpecAlias: points shared by line strings *)

MaxObjAlias == 3
MaxKidsAlias == 2

AliasClasses == {"Point", "LineString"}

NextAlias ==
  \/ \E c \in AliasClasses :
        Len(heap) < MaxObjAlias /\ Create(c, FALSE, FALSE)
  \/ \E p \in Ids, v \in Coord : SetX(p, v)
  \/ \E c \in Ids, k \in Ids : Len(heap[c].kids) < MaxKidsAlias /\ Add(c, k)

SpecAlias == Init /\ [][NextAlias]_vars

-----------------------------------------------------------------------------
(* C5: a LineString reports, at each position, the x of the very Point     *)
(* instance it was given there; a Point given to two LineStrings and then  *)
(* changed shows its new x in both.                                        *)
C5_AddStoresTheInstance ==
  \A l1 \in Ids, l2 \in Ids :
    \A i \in 1..Len(heap[l1].given), j \in 1..Len(heap[l2].given) :
      (/\ heap[l1].cls = "LineString"
       /\ heap[l2].cls = "LineString"
       /\ heap[l1].given[i] = heap[l2].given[j])
      => /\ GetPoint(heap, l1, i).x = heap[heap[l1].given[i]].x
         /\ GetPoint(heap, l2, j).x = heap[heap[l1].given[i]].x

\* the x of a point held by two different line strings has just been set
C5_Witness ==
  /\ last.op = "setX"
  /\ last.b = 1
  /\ \E l1 \in Ids, l2 \in Ids :
       /\ l1 # l2
       /\ heap[l1].cls = "LineString"
       /\ heap[l2].cls = "LineString"
       /\ \E i \in 1..Len(heap[l1].kids) : heap[l1].given[i] = last.a
       /\ \E j \in 1..Len(heap[l2].kids) : heap[l2].given[j] = last.a
       /\ GetPoint(heap, l1, 1).x = 1

-----------------------------------------------------------------------------
(* Specification SpecCurve: compound curves and their end points *)

MaxObjCurve == 4
MaxKidsCurve == 2

CurveClasses == {"Point", "LineString", "CompoundCurve"}

NextCurve ==
  \/ \E c \in CurveClasses :
        Len(heap) < MaxObjCurve /\ Create(c, FALSE, FALSE)
  \/ \E p \in Ids, v \in Coord : SetX(p, v)
  \/ \E c \in Ids, k \in Ids : Len(heap[c].kids) < MaxKidsCurve /\ Add(c, k)
  \/ \E c \in Ids : EndPoint(c)

SpecCurve == Init /\ [][NextCurve]_vars

-----------------------------------------------------------------------------
(* C4: a call of CompoundCurve.endPoint() that returns a point leaves the  *)
(* order of the line strings as it was, so that startPoint() answers after *)
(* the call what it answered before, and the call returns the last point   *)
(* of the last non-empty line string.                                      *)
C4_EndPointKeepsOrder ==
  [][\A c \in Ids :
       (last'.op = "endPoint" /\ last'.a = c /\ last'.b # 0) =>
         /\ heap'[c].kids = heap[c].kids
         /\ CompoundStartPoint(heap', c) = CompoundStartPoint(heap, c)
         /\ LET l == FirstNonEmpty(heap, Reverse(heap[c].kids))
            IN last'.b = IF l = 0 THEN 0 ELSE LineEndPoint(heap, l)]_vars

-----------------------------------------------------------------------------
(* Specification SpecColl: collections and the types they report *)

MaxObjColl == 4
MaxKidsColl == 2

CollClasses ==
  {"Point", "LineString", "CompoundCurve", "Polygon", "PolyhedralSurface",
   "GeometryCollection"}

NextColl ==
  \/ \E c \in CollClasses :
        Len(heap) < MaxObjColl /\ Create(c, FALSE, FALSE)
  \/ \E c \in Ids, k \in Ids :
        /\ InstanceOf(heap[c].cls, "GeometryCollection")
        /\ Len(heap[c].kids) < MaxKidsColl
        /\ Add(c, k)

SpecColl == Init /\ [][NextColl]_vars

\* every member of collection g is an instance of class type
AllMembers(g, type) ==
  \A i \in 1..Len(heap[g].kids) :
    InstanceOf(heap[heap[g].kids[i]].cls, type)

-----------------------------------------------------------------------------
(* C6: getCollectionType() of a generic GeometryCollection is MultiPoint   *)
(* when all members are Points, else MultiLineString when all are          *)
(* LineStrings, else MultiPolygon when all are Polygons, else MultiCurve   *)
(* when all are Curves, else MultiSurface when all are Surfaces, else      *)
(* GeometryCollection.                                                     *)
C6_CollectionTypeCascade ==
  \A g \in Ids :
    heap[g].cls = "GeometryCollection" =>
      GetCollectionType(heap, g) =
        IF AllMembers(g, "Point") THEN MultiPoint
        ELSE IF AllMembers(g, "LineString") THEN MultiLineString
        ELSE IF AllMembers(g, "Polygon") THEN MultiPolygon
        ELSE IF AllMembers(g, "Curve") THEN MultiCurve
        ELSE IF AllMembers(g, "Surface") THEN MultiSurface
        ELSE GeometryCollection

\* a generic collection of a LineString and a CompoundCurve reports
\* MultiCurve
C6_Witness ==
  \E g \in Ids :
    /\ heap[g].cls = "GeometryCollection"
    /\ Len(heap[g].kids) = 2
    /\ \E i \in 1..2 : heap[heap[g].kids[i]].cls = "LineString"
    /\ \E i \in 1..2 : heap[heap[g].kids[i]].cls = "CompoundCurve"
    /\ GetCollectionType(heap, g) = MultiCurve

-----------------------------------------------------------------------------
(* Specification SpecExt: extended collections and their editable type *)

MaxObjExt == 4
MaxKidsExt == 2

\* the types the geometryType setter is called with
EditableTypes == {GeometryCollection, MultiCurve, MultiSurface, Point}

NextExt ==
  \/ \E c \in CollClasses :
        Len(heap) < MaxObjExt /\ Create(c, FALSE, FALSE)
  \/ \E c \in Ids, k \in Ids :
        /\ InstanceOf(heap[c].cls, "GeometryCollection")
        /\ Len(heap[c].kids) < MaxKidsExt
        /\ Add(c, k)
  \/ \E g \in Ids :
        Len(heap) < MaxObjExt /\ CreateFromGeometryCollection(g)
  \/ \E e \in Ids, t \in EditableTypes : SetGeometryType(e, t)
  \/ \E e \in Ids : UpdateGeometryType(e)

SpecExt == Init /\ [][NextExt]_vars

-----------------------------------------------------------------------------
(* C7: after updateGeometryType() returns, also when it is called by       *)
(* createFromGeometryCollection, the extended collection reports the type  *)
(* its current members determine, whatever type it reported before:        *)
(* GeometryCollection when all are Points, else MultiCurve when all are    *)
(* Curves, else MultiSurface when all are Surfaces, else                   *)
(* GeometryCollection.                                                     *)
C7_UpdateFollowsMembers ==
  (last.op = "updateGeometryType" /\ last.b # Throws) =>
    heap[last.a].type =
      IF AllMembers(last.a, "Point") THEN GeometryCollection
      ELSE IF AllMembers(last.a, "Curve") THEN MultiCurve
      ELSE IF AllMembers(last.a, "Surface") THEN MultiSurface
      ELSE GeometryCollection

-----------------------------------------------------------------------------
(* Specification SpecRing: linear rings and the point lists assigned *)

MaxObjRing == 4
MaxRingPts == 3

RingClasses == {"Point", "LinearRing"}

\* the lists of at most n points
PointLists(n) ==
  UNION {[1..k -> {p \in Ids : IsPoint(heap, p)}] : k \in 0..n}

NextRing ==
  \/ \E c \in RingClasses :
        Len(heap) < MaxObjRing /\ Create(c, FALSE, FALSE)
  \/ \E p \in Ids, v \in Coord : SetX(p, v)
  \/ \E p \in Ids, v \in Optional : SetZ(p, v)
  \/ \E r \in Ids : \E pts \in PointLists(MaxRingPts) : SetPoints(r, pts)

SpecRing == Init /\ [][NextRing]_vars

\* two points have the same coordinates
Coincide(p, q) == p.x = q.x /\ p.z = q.z /\ p.m = q.m

-----------------------------------------------------------------------------
(* C8: after a non-empty list is assigned to a LinearRing's points, the    *)
(* ring holds the list as given when its first and last points coincide,   *)
(* and otherwise the list followed by one point coinciding with the first; *)
(* the assignment throws exactly when the ring then has fewer than four    *)
(* points.                                                                 *)
C8_RingIsClosedAndChecked ==
  (last.op = "setPoints" /\ last.val # <<>>) =>
    LET pts == last.val
        n == Len(pts)
        ks == heap[last.a].kids
    IN /\ IF Coincide(heap[pts[1]], heap[pts[n]])
          THEN ks = pts
          ELSE /\ Len(ks) = n + 1
               /\ SubSeq(ks, 1, n) = pts
               /\ Coincide(heap[ks[n + 1]], heap[pts[1]])
       /\ (last.b = 1) <=> (Len(ks) < 4)

\* three points, the last differing from the first, were assigned: the
\* ring holds four points and the assignment did not throw
C8_Witness ==
  /\ last.op = "setPoints"
  /\ Len(last.val) = 3
  /\ ~Coincide(heap[last.val[1]], heap[last.val[3]])
  /\ Len(heap[last.a].kids) = 4
  /\ last.b = 0

-----------------------------------------------------------------------------
(* Specification SpecSer: geometries serialised and read back *)

MaxObjSer == 3
MaxKidsSer == 1

SerClasses ==
  {"Point", "LineString", "Polygon", "MultiPoint", "MultiLineString",
   "MultiPolygon", "GeometryCollection", "CompoundCurve", "CurvePolygon"}

\* the x values the setter is called with
SerCoord == {1, Inf}

NextSer ==
  \/ \E c \in SerClasses, hz \in BOOLEAN, hm \in BOOLEAN :
        /\ Len(heap) < MaxObjSer
        /\ c = "Point" => ~hz /\ ~hm
        /\ Create(c, hz, hm)
  \/ \E p \in Ids, v \in SerCoord : SetX(p, v)
  \/ \E p \in Ids, v \in Optional : SetZ(p, v)
  \/ \E p \in Ids, v \in Optional : SetM(p, v)
  \/ \E c \in Ids, k \in Ids : Len(heap[c].kids) < MaxKidsSer /\ Add(c, k)
  \/ \E g \in Ids : RoundTrip(g)

SpecSer == Init /\ [][NextSer]_vars

\* two geometry values have the same type, flags, coordinates and members
RECURSIVE SameStructure(_, _)
SameStructure(s, t) ==
  /\ s.type = t.type
  /\ s.hasZ = t.hasZ
  /\ s.hasM = t.hasM
  /\ s.x = t.x
  /\ s.z = t.z
  /\ s.m = t.m
  /\ Len(s.kids) = Len(t.kids)
  /\ \A i \in 1..Len(s.kids) : SameStructure(s.kids[i], t.kids[i])

\* every coordinate of a geometry value is a finite number or absent
RECURSIVE AllFinite(_)
AllFinite(t) ==
  /\ t.x # Inf
  /\ t.z # Inf
  /\ t.m # Inf
  /\ \A i \in 1..Len(t.kids) : AllFinite(t.kids[i])

-----------------------------------------------------------------------------
-----------------------------------------------------------------------------
(* Specification SpecSimplify: point lists simplified *)

MaxSimplifyPts == 4

\* the coordinates of the points of the planar algorithms
GridX == 0..2
GridY == 0..1

\* a Point at (x, y)
PointAt(x, y) == [NewObj("Point", FALSE, FALSE) EXCEPT !.x = x, !.y = y]

\* the points of the grid
GridPoints == {PointAt(x, y) : x \in GridX, y \in GridY}

\* the heaps of at most n points on the grid
PointHeaps(n) == UNION {[1..k -> GridPoints] : k \in 0..n}

\* the point list of all the points created, in order
AllPoints == [i \in 1..Len(heap) |-> i]

\* the tolerances simplifyPoints is called with
Tolerances == {1, 2}

InitSimplify ==
  /\ heap \in PointHeaps(MaxSimplifyPts)
  /\ last = Nop

\* GeometryUtils.simplifyPoints(points, t)
Simplify(t) ==
  /\ heap' = heap
  /\ last' = OpVal("simplifyPoints", 0, t, SimplifyPoints(heap, AllPoints, t))

NextSimplify == \E t \in Tolerances : Simplify(t)

SpecSimplify == InitSimplify /\ [][NextSimplify]_vars

-----------------------------------------------------------------------------
(* C11: for a non-empty input, simplifyPoints returns points of the input  *)
(* in input order, the first being the input's first and the last the      *)
(* input's last, and never more points than the input has.                 *)
C11_SimplifyIsSubsequence ==
  (last.op = "simplifyPoints" /\ Len(heap) > 0) =>
    LET r == last.val
        n == Len(heap)
    IN /\ Len(r) <= n
       /\ \A i \in 1..Len(r) : r[i] \in 1..n
       /\ \A i \in 1..Len(r) - 1 : r[i] < r[i + 1]
       /\ r[1] = 1
       /\ r[Len(r)] = n

-----------------------------------------------------------------------------
(* Specification SpecCentroid: centroids of point sets and polygons *)

MaxCentroidPts == 4

\* a heap of points followed by a LineString of all of them, a Polygon with
\* that ring and a MultiPoint of all of them
CentroidHeap(pts) ==
  LET k == Len(pts)
      h0 == pts \o <<NewObj("LineString", FALSE, FALSE),
                     NewObj("Polygon", FALSE, FALSE),
                     NewObj("MultiPoint", FALSE, FALSE)>>
      h1 == AddAll(h0, k + 1, [i \in 1..k |-> i])
      h2 == AddChild(h1, k + 2, k + 1)
  IN AddAll(h2, k + 3, [i \in 1..k |-> i])

InitCentroid ==
  /\ \E pts \in PointHeaps(MaxCentroidPts) :
        pts # <<>> /\ heap = CentroidHeap(pts)
  /\ last = Nop

\* geometry.getCentroid()
Centroid(g) ==
  /\ heap[g].cls \in {"Polygon", "MultiPoint"}
  /\ heap' = heap
  /\ last' = OpVal("getCentroid", g, 0, <<GetCentroid(heap, g)>>)

NextCentroid == \E g \in Ids : Centroid(g)

SpecCentroid == InitCentroid /\ [][NextCentroid]_vars

\* the x and y of the points reachable from a geometry
XsOf(g) == {heap[p].x : p \in {q \in Reach(heap, g) : IsPoint(heap, q)}}
YsOf(g) == {heap[p].y : p \in {q \in Reach(heap, g) : IsPoint(heap, q)}}

\* the number n/d lies between lo and hi; no number when d = 0
Between(lo, n, d, hi) ==
  /\ d # 0
  /\ d > 0 => lo * d <= n /\ n <= hi * d
  /\ d < 0 => lo * d >= n /\ n >= hi * d

-----------------------------------------------------------------------------
(* C12: the centroid of a MultiPoint or a Polygon of at least three points *)
(* at different places lies within the geometry's envelope: its x between  *)
(* the smallest and the largest x of the geometry's points, its y between  *)
(* the smallest and the largest y.                                         *)
C12_CentroidInEnvelope ==
  (/\ last.op = "getCentroid"
   /\ Cardinality({<<heap[p].x, heap[p].y>> :
                     p \in {q \in Reach(heap, last.a) : IsPoint(heap, q)}})
        >= 3
   /\ \A p \in Ids, q \in Ids :
        (IsPoint(heap, p) /\ IsPoint(heap, q) /\ p # q)
          => <<heap[p].x, heap[p].y>> # <<heap[q].x, heap[q].y>>)
  => LET c == last.val[1]
     IN /\ \E lo \in XsOf(last.a), hi \in XsOf(last.a) :
             /\ \A v \in XsOf(last.a) : lo <= v /\ v <= hi
             /\ Between(lo, c.xn, c.xd, hi)
        /\ \E lo \in YsOf(last.a), hi \in YsOf(last.a) :
             /\ \A v \in YsOf(last.a) : lo <= v /\ v <= hi
             /\ Between(lo, c.yn, c.yd, hi)

-----------------------------------------------------------------------------
(* Specification SpecBound: geometries bounded by envelopes *)

MaxBoundPts == 2

\* the envelopes with minX <= maxX and minY <= maxY on the grid
Envelopes ==
  {e \in [minX : GridX, maxX : GridX, minY : GridY, maxY : GridY] :
     e.minX <= e.maxX /\ e.minY <= e.maxY}

InitBound ==
  /\ \E pts \in PointHeaps(MaxBoundPts) :
        pts # <<>> /\ heap = CentroidHeap(pts)
  /\ last = Nop

\* GeometryUtils.bound(g, envelope); the number of points moved is recorded
BoundTo(g, envelope) ==
  /\ heap' = Bound(heap, g, envelope)
  /\ last' = OpVal("bound", g,
                   Cardinality({p \in Ids : heap'[p] # heap[p]}),
                   <<envelope>>)

NextBound == \E g \in Ids, e \in Envelopes : BoundTo(g, e)

SpecBound == InitBound /\ [][NextBound]_vars

\* point p lies in envelope e
Inside(p, e) ==
  /\ e.minX <= p.x
  /\ p.x <= e.maxX
  /\ e.minY <= p.y
  /\ p.y <= e.maxY

-----------------------------------------------------------------------------
(* C13: bound(g, envelope) leaves every point of g inside the envelope,    *)
(* leaves the points that were inside as they were, changes nothing but    *)
(* the x and y of points, and adds, removes or reorders no vertex.         *)
C13_BoundClampsInPlace ==
  [][\A g \in Ids :
       (last'.op = "bound" /\ last'.a = g) =>
         LET e == last'.val[1]
         IN /\ Len(heap') = Len(heap)
            /\ \A i \in Ids :
                 /\ heap'[i].kids = heap[i].kids
                 /\ heap'[i].cls = heap[i].cls
                 /\ heap'[i].z = heap[i].z
                 /\ heap'[i].m = heap[i].m
                 /\ (~IsPoint(heap, i) \/ i \notin Reach(heap, g)
                       \/ Inside(heap[i], e)) => heap'[i] = heap[i]
                 /\ (IsPoint(heap, i) /\ i \in Reach(heap, g))
                      => Inside(heap'[i], e)]_vars

\* a polygon was bounded and a point of its ring was moved
C13_Witness ==
  /\ last.op = "bound"
  /\ heap[last.a].cls = "Polygon"
  /\ last.b > 0

-----------------------------------------------------------------------------
(* Specification SpecConvPoint: points converted between degrees and meters *)

MaxObjConv == 3

\* a point in degrees with or without z and m
InitConvPoint ==
  /\ \E x \in DegreesX, y \in DegreesY, z \in Optional, m \in Optional :
        heap = <<WithZM(PointAt(x, y), [z |-> z, m |-> m])>>
  /\ last = Nop

\* GeometryUtils.degreesToMetersPoint(p) (toMeters) or metersToDegreesPoint(p);
\* b is the point returned, Throws when the call threw
ConvertPointOp(p, toMeters) ==
  LET r == ConvertPoint(heap[p], toMeters)
  IN /\ Len(heap) < MaxObjConv
     /\ IF toMeters THEN heap[p].x \in DegreesX /\ heap[p].y \in DegreesY
        ELSE heap[p].x \in MetersX /\ heap[p].y \in MetersY
     /\ heap' = IF r = Thrown THEN heap ELSE Append(heap, r)
     /\ last' = OpVal(IF toMeters THEN "degreesToMetersPoint"
                      ELSE "metersToDegreesPoint", p,
                      IF r = Thrown THEN Throws ELSE Len(heap) + 1, <<>>)

NextConvPoint ==
  \/ \E p \in Ids, toMeters \in BOOLEAN : ConvertPointOp(p, toMeters)
  \/ \E p \in Ids, v \in Optional : SetZ(p, v)
  \/ \E p \in Ids, v \in Optional : SetM(p, v)

SpecConvPoint == InitConvPoint /\ [][NextConvPoint]_vars

\* the last call was one of the two point conversions
IsPointConversion ==
  last.op \in {"degreesToMetersPoint", "metersToDegreesPoint"}

-----------------------------------------------------------------------------
(* C14: degreesToMetersPoint and metersToDegreesPoint throw exactly when   *)
(* the point has no z or no m, and otherwise return a point with the z and *)
(* the m of the point given.                                               *)
C14_ConversionNeedsZM ==
  IsPointConversion =>
    LET point == heap[last.a]
    IN IF point.z = Undef \/ point.m = Undef
       THEN last.b = Throws
       ELSE /\ last.b \in Ids
            /\ heap[last.b].z = point.z
            /\ heap[last.b].m = point.m
            /\ heap[last.b].hasZ
            /\ heap[last.b].hasM

\* one conversion has thrown for a point without m, or has returned a point
\* for one with z and m
C14_Witness ==
  /\ IsPointConversion
  /\ \/ last.b = Throws /\ heap[last.a].z # Undef /\ heap[last.a].m = Undef
     \/ last.b \in Ids /\ heap[last.b].x > 0

-----------------------------------------------------------------------------
(* Specification SpecHierarchy: the type tables queried and walked *)

\* GeometryUtils.parentType(t)
ParentTypeOp(t) ==
  /\ last' = OpVal("parentType", t, ParentType(t), <<>>)
  /\ heap' = heap

\* GeometryUtils.parentHierarchy(t)
ParentHierarchyOp(t) ==
  /\ last' = OpVal("parentHierarchy", t, 0, ParentHierarchy(t))
  /\ heap' = heap

\* GeometryUtils.childTypes(t)
ChildTypesOp(t) ==
  /\ last' = OpVal("childTypes", t, 0, ChildTypes(t))
  /\ heap' = heap

\* GeometryUtils.childHierarchy(t)
ChildHierarchyOp(t) ==
  /\ last' = OpVal("childHierarchy", t, 0, <<ChildHierarchy(t)>>)
  /\ heap' = heap

\* the walk from a type to the root: a is the type the walk started at, b
\* the parent type it has reached, val the previous parent type
WalkStart(t) ==
  /\ last' = OpVal("walk", t, ParentType(t), <<Undef>>)
  /\ heap' = heap

WalkStep ==
  /\ last.op = "walk"
  /\ last.b # Undef
  /\ last' = OpVal("walk", last.a, ParentType(last.b), <<last.b>>)
  /\ heap' = heap

InitHierarchy == heap = <<>> /\ last = Nop

NextHierarchy ==
  \/ \E t \in GeometryTypes : ParentTypeOp(t)
  \/ \E t \in GeometryTypes : ParentHierarchyOp(t)
  \/ \E t \in GeometryTypes : ChildTypesOp(t)
  \/ \E t \in GeometryTypes : ChildHierarchyOp(t)
  \/ \E t \in GeometryTypes : WalkStart(t)
  \/ WalkStep

SpecHierarchy == InitHierarchy /\ [][NextHierarchy]_vars

\* the elements of a list
Range(q) == {q[i] : i \in 1..Len(q)}

-----------------------------------------------------------------------------
(* C15: the parent and child tables agree: every type but Geometry has a   *)
(* parent type and is among the child types of that parent, and every      *)
(* child type of a type has that type as its parent.                       *)
C15_TablesAgree ==
  /\ (last.op = "parentType" /\ last.a # Geometry) =>
       /\ last.b # Undef
       /\ last.a \in Range(ChildTypes(last.b))
  /\ last.op = "childTypes" =>
       \A c \in Range(last.val) : ParentType(c) = last.a
  /\ (last.op = "walk" /\ last.b # Undef /\ last.val[1] # Undef) =>
       last.val[1] \in Range(ChildTypes(last.b))

\* the walk from Triangle has reached Surface from CurvePolygon
C15_Witness ==
  /\ last.op = "walk"
  /\ last.a = Triangle
  /\ last.b = Surface
  /\ last.val = <<CurvePolygon>>

-----------------------------------------------------------------------------
(* Specification SpecMinimize: line strings minimized *)

MaxMinimizePts == 3

\* the x values of the points and the maxX values minimize is called with
MinimizeXs == {-2, 0, 2}
HalfWidths == {2, 3}

\* distinct points with the x values xs, in a line string
MinimizeHeap(xs) ==
  LET k == Len(xs)
      h0 == [i \in 1..k |-> PointAt(xs[i], 0)]
              \o <<NewObj("LineString", FALSE, FALSE)>>
  IN AddAll(h0, k + 1, [i \in 1..k |-> i])

InitMinimize ==
  /\ \E k \in 1..MaxMinimizePts : \E xs \in [1..k -> MinimizeXs] :
        heap = MinimizeHeap(xs)
  /\ last = Nop

\* GeometryUtils.minimize(lineString, maxX); val is the list of x values
\* before the call
Minimize(l, maxX) ==
  /\ heap[l].cls = "LineString"
  /\ heap' = MinimizeLineString(heap, l, maxX)
  /\ last' = OpVal("minimize", l, maxX,
                   [i \in 1..Len(heap[l].kids) |-> heap[heap[l].kids[i]].x])

NextMinimize == \E l \in Ids, maxX \in HalfWidths : Minimize(l, maxX)

SpecMinimize == InitMinimize /\ [][NextMinimize]_vars

-----------------------------------------------------------------------------
(* C16: minimize decides the shift of every point i >= 1 of a line string  *)
(* by comparing it with the point just before it, i - 1, and shifts it by  *)
(* 2 * maxX toward that point when the unwrapped gap is the smaller one.   *)
C16_MinimizeIsPairwise ==
  last.op = "minimize" =>
    LET points == heap[last.a].kids
    IN \A i \in 2..Len(points) :
         heap[points[i]].x
           = MinimizeX(heap[points[i - 1]].x, last.val[i], last.b)

-----------------------------------------------------------------------------
(* Specification SpecCrop: point lists cropped by envelopes *)

MaxCropPts == 2

\* points created with createFromXY, without z and m
InitCrop ==
  /\ heap \in PointHeaps(MaxCropPts)
  /\ last = Nop

\* GeometryUtils.cropPoints(points, envelope): b is Throws when the call
\* threw, val the envelope and the list returned
Crop(envelope) ==
  LET r == CropPoints(heap, AllPoints, envelope)
  IN /\ heap' = heap
     /\ last' = OpVal("cropPoints", 0, IF r = Thrown THEN Throws ELSE 0,
                      <<envelope, IF r = Thrown THEN <<>> ELSE r.points>>)

NextCrop == \E e \in Envelopes : Crop(e)

SpecCrop == InitCrop /\ [][NextCrop]_vars

\* the elements of list q that are in the set keep, in order
RECURSIVE Filter(_, _)
Filter(q, keep) ==
  IF q = <<>> THEN <<>>
  ELSE (IF Head(q) \in keep THEN <<Head(q)>> ELSE <<>>)
         \o Filter(Tail(q), keep)

-----------------------------------------------------------------------------
(* C17: when cropPoints returns, the input points inside the envelope are  *)
(* in its result in input order, so the result is not empty when an input  *)
(* point is inside.                                                        *)
C17_CropKeepsInsidePoints ==
  (last.op = "cropPoints" /\ last.b # Throws) =>
    LET inside == {i \in Ids : ContainsPoint(last.val[1], heap[i])}
    IN /\ Filter(last.val[2], inside) = Filter(AllPoints, inside)
       /\ inside # {} => last.val[2] # <<>>

-----------------------------------------------------------------------------
(* Specification SpecConvGeom: geometries converted between degrees and    *)
(* meters                                                                  *)

MaxConvPts == 2
MaxObjConvGeom == 9

\* the classes of the surface and of the collection in the scenarios
ConvSurfaces == {"Polygon", "Triangle"}
ConvCollections == {"GeometryCollection", "MultiPoint"}

\* points in degrees, each with both z and m or with neither
ConvPoints ==
  {WithZM(PointAt(x, y), [z |-> zm, m |-> zm]) :
     x \in DegreesX, y \in DegreesY, zm \in Optional}

\* the points, a line string of them, a surface with that ring and a
\* collection of the points
ConvHeap(pts, surface, collection) ==
  LET k == Len(pts)
      h0 == pts \o <<NewObj("LineString", FALSE, FALSE),
                     NewObj(surface, FALSE, FALSE),
                     NewObj(collection, FALSE, FALSE)>>
      h1 == AddAll(h0, k + 1, [i \in 1..k |-> i])
      h2 == AddChild(h1, k + 2, k + 1)
  IN AddAll(h2, k + 3, [i \in 1..k |-> i])

InitConvGeom ==
  /\ \E k \in 1..MaxConvPts : \E pts \in [1..k -> ConvPoints] :
       \E surface \in ConvSurfaces, collection \in ConvCollections :
          heap = ConvHeap(pts, surface, collection)
  /\ last = Nop

\* the coordinates of the points of g are values the direction's transform
\* is tabulated for; under a Triangle the transform applied is the one to
\* meters
RECURSIVE InDomain(_, _, _)
InDomain(h, g, toMeters) ==
  IF IsPoint(h, g)
  THEN IF toMeters THEN h[g].x \in DegreesX /\ h[g].y \in DegreesY
       ELSE h[g].x \in MetersX /\ h[g].y \in MetersY
  ELSE \A i \in 1..Len(h[g].kids) :
         InDomain(h, h[g].kids[i], toMeters \/ h[g].type = Triangle)

\* GeometryUtils.degreesToMeters(g) (toMeters) or metersToDegrees(g); b is
\* the geometry returned, Throws when the call threw
ConvertOp(g, toMeters) ==
  LET r == Convert(heap, g, toMeters)
  IN /\ InDomain(heap, g, toMeters)
     /\ r.id = 0 \/ Len(r.h) <= MaxObjConvGeom
     /\ heap' = IF r.id = 0 THEN heap ELSE r.h
     /\ last' = OpVal(IF toMeters THEN "degreesToMeters"
                      ELSE "metersToDegrees", g,
                      IF r.id = 0 THEN Throws ELSE r.id, <<>>)

NextConvGeom == \E g \in Ids, toMeters \in BOOLEAN : ConvertOp(g, toMeters)

SpecConvGeom == InitConvGeom /\ [][NextConvGeom]_vars

\* b has the tag, the flags and the members of a, member by member, with
\* every point converted
RECURSIVE Converted(_, _, _, _)
Converted(h, a, b, toMeters) ==
  /\ h[b].type = h[a].type
  /\ h[b].hasZ = h[a].hasZ
  /\ h[b].hasM = h[a].hasM
  /\ Len(h[b].kids) = Len(h[a].kids)
  /\ IsPoint(h, a) =>
       LET value == IF toMeters THEN DegreesToMetersCoord(h[a].x, h[a].y)
                    ELSE MetersToDegreesCoord(h[a].x, h[a].y)
       IN /\ h[b].x = value.x
          /\ h[b].y = value.y
          /\ h[b].z = h[a].z
          /\ h[b].m = h[a].m
  /\ \A i \in 1..Len(h[a].kids) :
       Converted(h, h[a].kids[i], h[b].kids[i], toMeters)

-----------------------------------------------------------------------------
(* C18: the geometry degreesToMeters or metersToDegrees returns has the    *)
(* geometry type, the hasZ and hasM and the members, in number and order,  *)
(* of the geometry given, with every point converted.                      *)
C18_ConversionKeepsStructure ==
  (last.op \in {"degreesToMeters", "metersToDegrees"} /\ last.b # Throws) =>
    Converted(heap, last.a, last.b, last.op = "degreesToMeters")

-----------------------------------------------------------------------------
(* Specification SpecEnvelope: pairs of envelopes tested for intersection *)

\* two envelopes
InitEnvelope ==
  /\ \E e1 \in Envelopes, e2 \in Envelopes : heap = <<e1, e2>>
  /\ last = Nop

\* heap[1].intersects(heap[2], allowEmpty): b is 1 for true, 0 for false and
\* Throws when the call threw; a is 1 when allowEmpty
IntersectsOp(allowEmpty) ==
  /\ heap' = heap
  /\ last' = OpVal("intersects", IF allowEmpty THEN 1 ELSE 0,
                   Intersects(heap[1], heap[2], allowEmpty), <<>>)

NextEnvelope == \E allowEmpty \in BOOLEAN : IntersectsOp(allowEmpty)

SpecEnvelope == InitEnvelope /\ [][NextEnvelope]_vars

\* the two envelopes have a rectangle in common: one with an area, or any,
\* a line or a point included, when empty overlaps are allowed
Overlapping(e1, e2, allowEmpty) ==
  LET width == Min(e1.maxX, e2.maxX) - Max(e1.minX, e2.minX)
      height == Min(e1.maxY, e2.maxY) - Max(e1.minY, e2.minY)
  IN IF allowEmpty THEN width >= 0 /\ height >= 0
     ELSE width > 0 /\ height > 0

-----------------------------------------------------------------------------
(* C19: intersects(other, allowEmpty) returns true when the two envelopes  *)
(* overlap and returns false, without throwing, when they do not.          *)
C19_IntersectsReturnsBoolean ==
  last.op = "intersects" =>
    last.b = IF Overlapping(heap[1], heap[2], last.a = 1) THEN 1 ELSE 0

-----------------------------------------------------------------------------
(* Specification SpecCurveCentroid: surface centroids of curve polygons *)

MaxRingPts3 == 3

\* the points the rings are drawn from
Corners == {PointAt(0, 0), PointAt(2, 0), PointAt(2, 1), PointAt(0, 1)}

\* a curve polygon with an exterior ring of the points ep and a hole of the
\* points hp, each ring a LineString or a CompoundCurve of one LineString
CurvePolygonHeap(ep, hp, compoundExterior, compoundHole) ==
  LET k == Len(ep)
      n == k + Len(hp)
      h0 == ep \o hp \o <<NewObj("LineString", FALSE, FALSE),
                          NewObj("LineString", FALSE, FALSE),
                          NewObj("CompoundCurve", FALSE, FALSE),
                          NewObj("CompoundCurve", FALSE, FALSE),
                          NewObj("CurvePolygon", FALSE, FALSE)>>
      h1 == AddAll(h0, n + 1, [i \in 1..k |-> i])
      h2 == AddAll(h1, n + 2, [i \in 1..Len(hp) |-> k + i])
      h3 == AddChild(AddChild(h2, n + 3, n + 1), n + 4, n + 2)
  IN AddAll(h3, n + 5, <<IF compoundExterior THEN n + 3 ELSE n + 1,
                         IF compoundHole THEN n + 4 ELSE n + 2>>)

InitCurveCentroid ==
  /\ \E ep \in [1..MaxRingPts3 -> Corners], hp \in [1..MaxRingPts3 -> Corners],
        compoundExterior \in BOOLEAN, compoundHole \in BOOLEAN :
          heap = CurvePolygonHeap(ep, hp, compoundExterior, compoundHole)
  /\ last = Nop

\* CentroidSurface.createFromGeometry(g) for a curve polygon g: b is Throws
\* when the call threw, val the totals [base, area, sx, sy]
CentroidSurfaceAdd(g) ==
  LET c == AddCurvePolygon(heap, NewCentroidSurface, g)
  IN /\ heap[g].type = CurvePolygon
     /\ heap' = heap
     /\ last' = OpVal("centroidSurfaceAdd", g,
                      IF c = Thrown THEN Throws ELSE 0,
                      IF c = Thrown THEN <<>> ELSE <<c>>)

NextCurveCentroid == \E g \in Ids : CentroidSurfaceAdd(g)

SpecCurveCentroid == InitCurveCentroid /\ [][NextCurveCentroid]_vars

\* the line strings a ring is made of
RingComponents(h, ring) ==
  IF h[ring].type = CompoundCurve THEN h[ring].kids ELSE <<ring>>

-----------------------------------------------------------------------------
(* C20: for a curve polygon with a ring that is a CompoundCurve, the       *)
(* surface centroid totals are those of the exterior ring's own line       *)
(* strings added and of each hole's own line strings subtracted.           *)
C20_RingsFoldTheirOwnComponents ==
  (/\ last.op = "centroidSurfaceAdd"
   /\ \E i \in 1..Len(heap[last.a].kids) :
         heap[heap[last.a].kids[i]].type = CompoundCurve) =>
    LET rings == heap[last.a].kids
        exterior == AddLineStrings(heap, NewCentroidSurface, 1,
                                   RingComponents(heap, rings[1]))
        expected == AddLineStrings(heap, exterior, -1,
                                   RingComponents(heap, rings[2]))
    IN /\ last.b # Throws
       /\ last.val = <<expected>>

-----------------------------------------------------------------------------
(* Specification SpecCropGeom: geometries cropped by envelopes *)

MaxCropGeomPts == 2
MaxObjCropGeom == 9

\* points without z and m, a line string of them, a polygon with that ring,
\* a multi point of the points and a multi polygon of the polygon
CropHeap(pts) ==
  LET h == Append(CentroidHeap(pts), NewObj("MultiPolygon", FALSE, FALSE))
  IN AddChild(h, Len(h), Len(pts) + 2)

\* the envelopes with a corner at the origin
CropEnvelopes == {e \in Envelopes : e.minX = 0 /\ e.minY = 0}

InitCropGeom ==
  /\ \E k \in 1..MaxCropGeomPts : \E pts \in [1..k -> GridPoints] :
        heap = CropHeap(pts)
  /\ last = Nop

\* one of the crop functions called on g: b is the geometry returned, Undef
\* for undefined and 0 when the call threw; val is the envelope
CropOp(name, g, envelope, r) ==
  /\ Len(r.h) <= MaxObjCropGeom
  /\ heap' = r.h
  /\ last' = OpVal(name, g, r.id, <<envelope>>)

CropPointOp(g, envelope) ==
  /\ heap[g].cls = "Point"
  /\ CropOp("cropPoint", g, envelope, CropPoint(heap, g, envelope))

CropLineStringOp(g, envelope) ==
  /\ heap[g].cls = "LineString"
  /\ CropOp("cropLineString", g, envelope,
            CropLineString(heap, g, envelope, "LineString"))

CropMultiPointOp(g, envelope) ==
  /\ heap[g].cls = "MultiPoint"
  /\ CropOp("cropMultiPoint", g, envelope, CropMultiPoint(heap, g, envelope))

CropPolygonOp(g, envelope) ==
  /\ heap[g].cls = "Polygon"
  /\ CropOp("cropPolygon", g, envelope, CropPolygon(heap, g, envelope))

CropMultiPolygonOp(g, envelope) ==
  /\ heap[g].cls = "MultiPolygon"
  /\ CropOp("cropMultiPolygon", g, envelope,
            CropMultiPolygon(heap, g, envelope))

NextCropGeom ==
  \/ \E g \in Ids, e \in CropEnvelopes : CropPointOp(g, e)
  \/ \E g \in Ids, e \in CropEnvelopes : CropLineStringOp(g, e)
  \/ \E g \in Ids, e \in CropEnvelopes : CropMultiPointOp(g, e)
  \/ \E g \in Ids, e \in CropEnvelopes : CropPolygonOp(g, e)
  \/ \E g \in Ids, e \in CropEnvelopes : CropMultiPolygonOp(g, e)

SpecCropGeom == InitCropGeom /\ [][NextCropGeom]_vars

\* no point of g is inside the envelope
NothingInside(g, envelope) ==
  \A p \in Reach(heap, g) :
     IsPoint(heap, p) => ~ContainsPoint(envelope, heap[p])

-----------------------------------------------------------------------------
(* C21: when no point of the input is inside the envelope, cropPoint,      *)
(* cropLineString, cropMultiPoint and cropPolygon, when they return,       *)
(* return undefined, and cropMultiPolygon throws.                          *)
C21_NothingLeftIsUndefined ==
  (/\ last.op \in {"cropPoint", "cropLineString", "cropMultiPoint",
                   "cropPolygon", "cropMultiPolygon"}
   /\ NothingInside(last.a, last.val[1])) =>
    IF last.op = "cropMultiPolygon" THEN last.b = 0
    ELSE last.b \in {Undef, 0}

-----------------------------------------------------------------------------
(* C27: a crop call leaves every object that existed before the call as it *)
(* was: it only creates objects.                                           *)
C27_CropLeavesInputUnchanged ==
  [][\A i \in 1..Len(heap) : heap'[i] = heap[i]]_vars

-----------------------------------------------------------------------------
(* Specification SpecBoundTags: bound of a collection under every tag *)

MaxTagPts == 2

\* points, a collection of them and the extended collection made from it
InitBoundTags ==
  /\ \E k \in 1..MaxTagPts : \E pts \in [1..k -> GridPoints] :
        LET h == Append(pts, NewObj("GeometryCollection", FALSE, FALSE))
        IN heap = ExtendedFromCollection(
                     AddAll(h, k + 1, [i \in 1..k |-> i]), k + 1)
  /\ last = Nop

\* bound returns nothing: b is Throws when the call threw and else the number
\* of objects it changed
BoundTag(g, envelope) ==
  /\ heap' = Bound(heap, g, envelope)
  /\ last' = OpVal("bound", g,
                   Cardinality({p \in Ids : heap'[p] # heap[p]}),
                   <<envelope>>)

NextBoundTags ==
  \/ \E e \in Ids, t \in GeometryTypes : SetGeometryType(e, t)
  \/ \E g \in Ids, e \in CropEnvelopes : BoundTag(g, e)

SpecBoundTags == InitBoundTags /\ [][NextBoundTags]_vars

-----------------------------------------------------------------------------
-----------------------------------------------------------------------------
(* Specification SpecFactory: composites built from lists of members *)

MaxMembers == 2
MaxObjFactory == 6

\* two points and two polygons with any flags
InitFactory ==
  /\ \E z \in [1..4 -> BOOLEAN], m \in [1..4 -> BOOLEAN] :
        heap = [i \in 1..4 |->
                  NewObj(IF i <= 2 THEN "Point" ELSE "Polygon", z[i], m[i])]
  /\ last = Nop

\* the lists of at most MaxMembers objects of class c
Members(c) ==
  UNION {[1..k -> {i \in Ids : heap[i].cls = c}] : k \in 0..MaxMembers}

\* a factory called with a list: a is the composite returned, 0 when the call
\* threw, and val the list
FromMembers(name, members, r) ==
  /\ Len(r.h) <= MaxObjFactory
  /\ heap' = r.h
  /\ last' = OpVal(name, r.id, 0, members)

NextFactory ==
  \/ \E polygons \in Members("Polygon") :
        FromMembers("PolyhedralSurface.createFromPolygons", polygons,
                    PolyhedralSurfaceFromPolygons(heap, polygons))
  \/ \E polygons \in Members("Polygon") :
        FromMembers("TIN.createFromPolygons", polygons,
                    TINFromPolygons(heap, polygons))
  \/ \E points \in Members("Point") :
        FromMembers("MultiPoint.createFromPoints", points,
                    MultiPointFromPoints(heap, points))

SpecFactory == InitFactory /\ [][NextFactory]_vars

-----------------------------------------------------------------------------
(* C22: the composite a createFrom factory returns has hasZ exactly when   *)
(* one of the members of the list has hasZ, and hasM likewise.             *)
C22_FactoryFlagsAreAnyMember ==
  (last.op # "" /\ last.a # 0) =>
    /\ heap[last.a].hasZ = HasZ(heap, last.val)
    /\ heap[last.a].hasM = HasM(heap, last.val)

-----------------------------------------------------------------------------
(* Specification SpecSetters: children replaced through the bulk setters *)

MaxChildren == 2

\* a point, a line string and a polygon with any flags, and a compound
\* curve, a polyhedral surface and a geometry collection without flags
InitSetters ==
  /\ \E z \in [1..3 -> BOOLEAN], m \in [1..3 -> BOOLEAN] :
        heap = [i \in 1..3 |->
                  NewObj(CASE i = 1 -> "Point"
                           [] i = 2 -> "LineString"
                           [] OTHER -> "Polygon", z[i], m[i])]
               \o <<NewObj("CompoundCurve", FALSE, FALSE),
                    NewObj("PolyhedralSurface", FALSE, FALSE),
                    NewObj("GeometryCollection", FALSE, FALSE)>>
  /\ last = Nop

\* the lists of at most MaxChildren objects of the classes cs
Children(cs) ==
  UNION {[1..k -> {i \in Ids : heap[i].cls \in cs}] : k \in 0..MaxChildren}

\* a setter of container c called with a list
SetChildren(name, c, children, h) ==
  /\ heap' = h
  /\ last' = OpVal(name, c, 0, children)

NextSetters ==
  \/ \E c \in Ids, points \in Children({"Point"}) :
        /\ heap[c].cls = "LineString"
        /\ SetChildren("LineString.points", c, points,
                       AssignChildren(heap, c, points))
  \/ \E c \in Ids, lineStrings \in Children({"LineString"}) :
        /\ heap[c].cls = "CompoundCurve"
        /\ SetChildren("CompoundCurve.lineStrings", c, lineStrings,
                       AssignChildren(heap, c, lineStrings))
  \/ \E c \in Ids, polygons \in Children({"Polygon"}) :
        /\ heap[c].cls = "PolyhedralSurface"
        /\ SetChildren("PolyhedralSurface.polygons", c, polygons,
                       AssignChildren(heap, c, polygons))
  \/ \E c \in Ids, patches \in Children({"Polygon"}) :
        /\ heap[c].cls = "PolyhedralSurface"
        /\ SetChildren("PolyhedralSurface.patches", c, patches,
                       AssignChildren(heap, c, patches))
  \/ \E c \in Ids, geometries \in Children({"Point", "Polygon"}) :
        /\ heap[c].cls = "GeometryCollection"
        /\ SetChildren("GeometryCollection.geometries", c, geometries,
                       SetGeometries(heap, c, geometries))

SpecSetters == InitSetters /\ [][NextSetters]_vars

-----------------------------------------------------------------------------
(* C26: after a bulk setter the container has hasZ when one of the new     *)
(* children has hasZ, and hasM when one of them has hasM.                  *)
C26_SettersPropagateZM ==
  last.op # "" =>
    /\ HasZ(heap, last.val) => heap[last.a].hasZ
    /\ HasM(heap, last.val) => heap[last.a].hasM

-----------------------------------------------------------------------------
(* C23: when the points setter of a LinearRing has appended the closing    *)
(* point and the x of the first point of the list is changed next, the x   *)
(* of the closing point stays as it was.                                   *)
C23_ClosingPointKeepsItsX ==
  [][(/\ last.op = "setPoints"
      /\ last.val # <<>>
      /\ Len(heap[last.a].kids) = Len(last.val) + 1
      /\ heap'[last.val[1]].x # heap[last.val[1]].x) =>
       LET closing == heap[last.a].kids[Len(last.val) + 1]
       IN heap'[closing].x = heap[closing].x]_vars

-----------------------------------------------------------------------------
(* C29: a points assignment of a LinearRing that throws leaves the ring    *)
(* with the points it held before the call.                                *)
C29_FailedAssignmentIsAtomic ==
  [][\A r \in Ids :
       (last'.op = "setPoints" /\ last'.a = r /\ last'.b = 1) =>
         heap'[r].kids = heap[r].kids]_vars

-----------------------------------------------------------------------------
(* Specification SpecEquals: geometries compared with equals *)

MaxObjEq == 4
MaxKidsEq == 1

EqClasses == {"Point", "LineString", "MultiPoint", "GeometryCollection"}

\* a.equals(b): b of the call is 1 for true and 0 for false, val the argument
EqualsOp(a, b) ==
  /\ heap' = heap
  /\ last' = OpVal("equals", a, IF Equals(heap, a, b) THEN 1 ELSE 0, <<b>>)

NextEquals ==
  \/ \E c \in EqClasses :
        Len(heap) < MaxObjEq /\ Create(c, FALSE, FALSE)
  \/ \E p \in Ids, v \in Coord : SetX(p, v)
  \/ \E c \in Ids, k \in Ids : Len(heap[c].kids) < MaxKidsEq /\ Add(c, k)
  \/ \E g \in Ids :
        Len(heap) < MaxObjEq /\ CreateFromGeometryCollection(g)
  \/ \E a \in Ids, b \in Ids : EqualsOp(a, b)

SpecEquals == Init /\ [][NextEquals]_vars

-----------------------------------------------------------------------------
(* C28: a.equals(b) gives what b.equals(a) gives.                          *)
C28_EqualsIsSymmetric ==
  last.op = "equals" =>
    (last.b = 1) = Equals(heap, last.val[1], last.a)

-----------------------------------------------------------------------------
(* Specification SpecMinNorm: line strings minimized and normalized *)

MaxMinNormPts == 3

\* the x and y values of the points
MinNormXs == -3..3
MinNormYs == {0, 1}

InitMinNorm ==
  /\ \E k \in 1..MaxMinNormPts :
       \E pts \in [1..k -> {PointAt(x, y) : x \in MinNormXs, y \in MinNormYs}] :
          heap = AddAll(Append(pts, NewObj("LineString", FALSE, FALSE)),
                        k + 1, [i \in 1..k |-> i])
  /\ last = Nop

\* the x and y of the points of line string l
Coordinates(l) ==
  [i \in 1..Len(heap[l].kids) |->
     [x |-> heap[heap[l].kids[i]].x, y |-> heap[heap[l].kids[i]].y]]

\* GeometryUtils.normalize(lineString, maxX)
Normalize(l, maxX) ==
  /\ heap[l].cls = "LineString"
  /\ heap' = NormalizeLineString(heap, l, maxX)
  /\ last' = OpVal("normalize", l, maxX, Coordinates(l))

\* GeometryUtils.minimize(lineString, maxX), then
\* GeometryUtils.normalize(lineString, maxX); val is the list of the
\* coordinates before the two calls
MinimizeNormalize(l, maxX) ==
  /\ heap[l].cls = "LineString"
  /\ heap' = NormalizeLineString(MinimizeLineString(heap, l, maxX), l, maxX)
  /\ last' = OpVal("minimize, normalize", l, maxX, Coordinates(l))

NextMinNorm ==
  \/ \E l \in Ids, maxX \in HalfWidths : Normalize(l, maxX)
  \/ \E l \in Ids, maxX \in HalfWidths : MinimizeNormalize(l, maxX)

SpecMinNorm == InitMinNorm /\ [][NextMinNorm]_vars

\* minimize, then normalize, was called on a line string whose points all had
\* x from lo to hi
RoundTripWithin(lo, hi) ==
  /\ last.op = "minimize, normalize"
  /\ \A i \in 1..Len(last.val) : lo <= last.val[i].x /\ last.val[i].x <= hi

-----------------------------------------------------------------------------
(* C25: when every point of a line string has x from -maxX to maxX,        *)
(* minimize and then normalize with maxX leave every point with the x and  *)
(* the y it had.                                                           *)
C25_MinimizeNormalizeRestores ==
  RoundTripWithin(-last.b, last.b) => Coordinates(last.a) = last.val

\* C25 as amended: the y is restored, and the x is restored for every point
\* but one that was at maxX or -maxX, which may end at the opposite bound
C25_RestoresButAtBounds ==
  RoundTripWithin(-last.b, last.b) =>
    \A i \in 1..Len(last.val) :
       LET now == Coordinates(last.a)[i]
           was == last.val[i]
       IN /\ now.y = was.y
          /\ \/ now.x = was.x
             \/ was.x \in {-last.b, last.b} /\ now.x = -was.x

\* the round trip of a line string with every x strictly between the bounds,
\* a point of which minimize shifts
C25_Witness ==
  /\ RoundTripWithin(1 - last.b, last.b - 1)
  /\ MinimizeLineString(heap, last.a, last.b) # heap
  /\ Coordinates(last.a) = last.val

-----------------------------------------------------------------------------
(* Specification SpecEvents: event queues built from rings *)

MaxEventPts == 2
MaxEdges == 3

\* the points of the unit square
SquarePoints == {PointAt(x, y) : x \in Coord, y \in Coord}

\* points and two line strings without points
InitEvents ==
  /\ \E k \in 1..MaxEventPts : \E pts \in [1..k -> SquarePoints] :
        heap = pts \o <<NewObj("LineString", FALSE, FALSE),
                        NewObj("LineString", FALSE, FALSE)>>
  /\ last = Nop

\* lineString.addPoint(point), with no entry in last
AddPoint(l, p) ==
  /\ heap[l].cls = "LineString"
  /\ IsPoint(heap, p)
  /\ Len(heap[l].kids) < MaxEdges
  /\ heap' = AddChild(heap, l, p)
  /\ last' = Nop

\* a queue built from rings: a is the number of rings, val the events of the
\* queue in their order
CreateQueue(name, rings, events) ==
  /\ \A i \in 1..Len(rings) : heap[rings[i]].cls = "LineString"
  /\ heap' = heap
  /\ last' = OpVal(name, Len(rings), 0, events)

\* the lists of one or two distinct objects
RingLists == {<<r>> : r \in Ids} \cup {<<r, q>> : r, q \in Ids}

NextEvents ==
  \/ \E l \in Ids, p \in Ids : AddPoint(l, p)
  \/ \E r \in Ids :
        CreateQueue("createFromLineString", <<r>>,
                    EventQueueFromLineString(heap, r))
  \/ \E rings \in RingLists :
        CreateQueue("createFromLineStrings", rings,
                    EventQueueFromLineStrings(heap, rings))

SpecEvents == InitEvents /\ [][NextEvents]_vars

-----------------------------------------------------------------------------
(* C30: in the sorted events of a queue the Left event of every edge of    *)
(* every ring comes before the Right event of that edge.                   *)
C30_LeftBeforeRight ==
  last.op \in {"createFromLineString", "createFromLineStrings"} =>
    \A i \in 1..Len(last.val), j \in 1..Len(last.val) :
       (/\ last.val[i].ring = last.val[j].ring
        /\ last.val[i].edge = last.val[j].edge
        /\ last.val[i].type = Left
        /\ last.val[j].type = Right) => i < j

====
